---- MODULE Spec2Model ----
(***************************************************************************)
(* s3-bucket-tester: configuration, provider detection, addressing         *)
(* resolution, request signing and the run of the checks.                  *)
(*                                                                         *)
(* Go strings are TLA+ strings; the string functions of the Go library     *)
(* (strings.HasPrefix, strings.Contains, strings.ToLower, url.Parse ...)   *)
(* are operators that work character by character.                         *)
(***************************************************************************)
EXTENDS Integers, Sequences, FiniteSets, TLC

VARIABLES
    pc,        \* position of the run (main) or of the unit under test
    args,      \* os.Args[1:]
    cfg,       \* *config.Config
    err,       \* the error of ParseFlags / Validate / createRequest ("" = nil)
    exitCode,  \* argument of os.Exit (-1 while running)
    req,       \* the *http.Request of AuthChecker.Check
    resp,      \* the HTTP response Check got (StatusCode 0 = none)
    sends,     \* requests put on the wire by client.Do, in order
    signs,     \* number of calls of addSigV4Auth / addSigV2Auth
    report,    \* *output.TestReport: Results and Summary
    emitted,   \* what the run wrote to stdout, stderr and the JSON file
    clock      \* time.Now(), in seconds after 2024-01-01T00:00:00Z

vars == <<pc, args, cfg, err, exitCode, req, resp, sends, signs, report, emitted, clock>>

----------------------------------------------------------------------------
(* package strings *)

Char(s, i) == SubSeq(s, i, i)

HasPrefix(s, p) == Len(s) >= Len(p) /\ SubSeq(s, 1, Len(p)) = p

HasSuffix(s, p) == Len(s) >= Len(p) /\ SubSeq(s, Len(s) - Len(p) + 1, Len(s)) = p

TrimPrefix(s, p) == IF HasPrefix(s, p) THEN SubSeq(s, Len(p) + 1, Len(s)) ELSE s

TrimSuffix(s, p) == IF HasSuffix(s, p) THEN SubSeq(s, 1, Len(s) - Len(p)) ELSE s

\* 1-based positions at which sub occurs in s
Occurrences(s, sub) ==
    {i \in 1..(Len(s) - Len(sub) + 1) : SubSeq(s, i, i + Len(sub) - 1) = sub}

Contains(s, sub) ==
    \E i \in 1..(Len(s) - Len(sub) + 1) : SubSeq(s, i, i + Len(sub) - 1) = sub

MinOf(S) == CHOOSE m \in S : \A n \in S : m <= n

MaxOf(S) == CHOOSE m \in S : \A n \in S : m >= n

\* strings.Index, 0-based, -1 when sub does not occur
Index(s, sub) == IF Contains(s, sub) THEN MinOf(Occurrences(s, sub)) - 1 ELSE -1

\* strings.LastIndex
LastIndex(s, sub) == IF Contains(s, sub) THEN MaxOf(Occurrences(s, sub)) - 1 ELSE -1

\* strings.Count for a non-empty sub of length 1
Count(s, sub) == Cardinality(Occurrences(s, sub))

UpperLetters == "ABCDEFGHIJKLMNOPQRSTUVWXYZ"

LowerLetters == "abcdefghijklmnopqrstuvwxyz"

LowerOf == [c \in {Char(UpperLetters, i) : i \in 1..26} |->
               Char(LowerLetters, 1 + Index(UpperLetters, c))]

UpperOf == [c \in {Char(LowerLetters, i) : i \in 1..26} |->
               Char(UpperLetters, 1 + Index(LowerLetters, c))]

\* s with the letters of its first n characters mapped through m
RECURSIVE MapLetters(_, _, _)
MapLetters(s, n, m) ==
    IF n = 0 THEN ""
    ELSE MapLetters(s, n - 1, m)
            \o (IF Char(s, n) \in DOMAIN m THEN m[Char(s, n)] ELSE Char(s, n))

ToLower(s) == MapLetters(s, Len(s), LowerOf)

ToUpper(s) == MapLetters(s, Len(s), UpperOf)

RECURSIVE ReplaceAll(_, _, _)
ReplaceAll(s, old, new) ==
    LET i == Index(s, old)
    IN IF i = -1 THEN s
       ELSE SubSeq(s, 1, i) \o new
                \o ReplaceAll(SubSeq(s, i + Len(old) + 1, Len(s)), old, new)

Digits == {"0", "1", "2", "3", "4", "5", "6", "7", "8", "9"}

AllDigits(s) == \A i \in 1..Len(s) : Char(s, i) \in Digits

----------------------------------------------------------------------------
(* package config: the tables *)

NilCaps == [Nil |-> TRUE]

Caps(name, policy, acl, vhost, pathStyle, notes) ==
    [Name |-> name, PolicySupport |-> policy, ACLSupport |-> acl,
     VirtualHostSupport |-> vhost, PathStyleSupport |-> pathStyle, Notes |-> notes]

ProviderCapabilitiesMap ==
    [aws        |-> Caps("AWS S3", "Full", "Full", TRUE, TRUE,
                         "Path-style is deprecated but functional"),
     wasabi     |-> Caps("Wasabi", "Full", "Full", TRUE, TRUE, "Very AWS-compatible"),
     ibm        |-> Caps("IBM Cloud Object Storage", "Full", "Full", TRUE, TRUE,
                         "Supports both APIs"),
     do         |-> Caps("DigitalOcean Spaces", "Full", "Full", TRUE, TRUE,
                         "AWS-like behavior"),
     b2         |-> Caps("Backblaze B2 (S3 API)", "IAM only", "None", TRUE, TRUE,
                         "No policy/ACL APIs"),
     minio      |-> Caps("MinIO / AIStor", "Full", "Synthetic only", TRUE, TRUE,
                         "Fully supports both styles"),
     cloudflare |-> Caps("Cloudflare R2", "IAM only", "None", TRUE, FALSE,
                         "No ACL/policy; path-style not supported"),
     hetzner    |-> Caps("Hetzner Storage Boxes (S3)", "Partial", "None", TRUE, TRUE,
                         "Basic S3 only"),
     ceph       |-> Caps("Ceph RGW", "Full", "Full", TRUE, TRUE,
                         "Very complete S3 implementation"),
     dell       |-> Caps("Dell EMC ECS", "Full", "Full", TRUE, TRUE,
                         "Enterprise S3-compatible"),
     netapp     |-> Caps("NetApp StorageGRID", "Full", "Full", TRUE, TRUE,
                         "Enterprise S3-compatible"),
     custom     |-> Caps("Custom/Unknown S3-Compatible", "Unknown", "Unknown", FALSE, FALSE,
                         "Capabilities may vary - consult provider documentation")]

\* ProviderCapabilitiesMap[id] of Go: the nil pointer for a missing key
\* a registry read that has no entry for "custom"
LookupWithoutCustom(id) ==
    IF id \in (DOMAIN ProviderCapabilitiesMap) \ {"custom"} THEN ProviderCapabilitiesMap[id]
    ELSE NilCaps

LookupCapabilities(id) ==
    IF id \in DOMAIN ProviderCapabilitiesMap THEN ProviderCapabilitiesMap[id] ELSE NilCaps

\* Providers: shortcut -> Template
Providers ==
    [x \in {"aws", "aws-legacy", "wasabi", "wasabi-legacy", "b2", "b2-legacy", "ibm", "do"} |->
        CASE x = "aws"           -> "<bucket>.s3.<region>.amazonaws.com"
          [] x = "aws-legacy"    -> "s3.<region>.amazonaws.com/<bucket>"
          [] x = "wasabi"        -> "<bucket>.s3.<region>.wasabisys.com"
          [] x = "wasabi-legacy" -> "s3.<region>.wasabisys.com/<bucket>"
          [] x = "b2"            -> "<bucket>.s3.<region>.backblazeb2.com"
          [] x = "b2-legacy"     -> "s3.<region>.backblazeb2.com/<bucket>"
          [] x = "ibm"           -> "<bucket>.<region>.objectstorage.cloud.ibm.com"
          [] x = "do"            -> "<bucket>.<region>.digitaloceanspaces.com"]

DetectProviderNoLower(endpoint) ==
    IF Contains(endpoint, "amazonaws.com") THEN "aws"
    ELSE IF Contains(endpoint, "wasabisys.com") THEN "wasabi"
    ELSE IF Contains(endpoint, "backblazeb2.com") THEN "b2"
    ELSE IF Contains(endpoint, "objectstorage.cloud.ibm.com") THEN "ibm"
    ELSE IF Contains(endpoint, "digitaloceanspaces.com") THEN "do"
    ELSE IF Contains(endpoint, "minio") \/ Contains(endpoint, "aistor") THEN "minio"
    ELSE IF Contains(endpoint, "cloudflare") \/ Contains(endpoint, "r2") THEN "cloudflare"
    ELSE IF Contains(endpoint, "hetzner") THEN "hetzner"
    ELSE IF Contains(endpoint, "ceph") \/ Contains(endpoint, "rgw") THEN "ceph"
    ELSE IF Contains(endpoint, "dell") \/ Contains(endpoint, "ecs") THEN "dell"
    ELSE IF Contains(endpoint, "netapp") \/ Contains(endpoint, "storagegrid") THEN "netapp"
    ELSE "custom"

DetectProvider(endpoint) ==
    LET e == ToLower(endpoint)
    IN IF Contains(e, "amazonaws.com") THEN "aws"
       ELSE IF Contains(e, "wasabisys.com") THEN "wasabi"
       ELSE IF Contains(e, "backblazeb2.com") THEN "b2"
       ELSE IF Contains(e, "objectstorage.cloud.ibm.com") THEN "ibm"
       ELSE IF Contains(e, "digitaloceanspaces.com") THEN "do"
       ELSE IF Contains(e, "minio") \/ Contains(e, "aistor") THEN "minio"
       ELSE IF Contains(e, "cloudflare") \/ Contains(e, "r2") THEN "cloudflare"
       ELSE IF Contains(e, "hetzner") THEN "hetzner"
       ELSE IF Contains(e, "ceph") \/ Contains(e, "rgw") THEN "ceph"
       ELSE IF Contains(e, "dell") \/ Contains(e, "ecs") THEN "dell"
       ELSE IF Contains(e, "netapp") \/ Contains(e, "storagegrid") THEN "netapp"
       ELSE "custom"

GetDefaultConfig ==
    [Endpoint |-> "", Bucket |-> "", Region |-> "us-east-1", AccessKey |-> "",
     SecretKey |-> "", AuthType |-> "sigv4", Port |-> 0, Insecure |-> FALSE,
     Timeout |-> 30, OutputFormat |-> "", OutputFile |-> "", FollowRedirect |-> TRUE,
     MaxRedirects |-> 10, Verbose |-> FALSE, Warning |-> "",
     Provider |-> "", DetectedProvider |-> "", VirtualHosted |-> FALSE,
     PathStyle |-> FALSE, CheckPolicy |-> FALSE, ProviderCapabilities |-> NilCaps]

----------------------------------------------------------------------------
(* fmt.Sscanf(s, "%d", &n): optional sign, then the leading digits; n stays 0
   when there are none *)

DigitValue(c) == Index("0123456789", c)

RECURSIVE DigitPrefix(_)
DigitPrefix(s) ==
    IF s = "" \/ Char(s, 1) \notin Digits THEN ""
    ELSE Char(s, 1) \o DigitPrefix(SubSeq(s, 2, Len(s)))

RECURSIVE DecimalValue(_)
DecimalValue(s) ==
    IF s = "" THEN 0
    ELSE 10 * DecimalValue(SubSeq(s, 1, Len(s) - 1)) + DigitValue(Char(s, Len(s)))

ScanInt(s) ==
    LET neg  == HasPrefix(s, "-")
        body == IF neg \/ HasPrefix(s, "+") THEN SubSeq(s, 2, Len(s)) ELSE s
        d    == DigitPrefix(body)
    IN IF d = "" THEN 0 ELSE IF neg THEN 0 - DecimalValue(d) ELSE DecimalValue(d)

----------------------------------------------------------------------------
(* net/url, for the URLs this program parses: after Validate every endpoint and
   every bucket URL starts with "http://" or "https://" *)

\* url.Parse: scheme "://" authority [path]; the authority ends at the first "/";
\* a port, the text after the last ":" of the authority, must be digits (or empty)
urlScheme(s) ==
    IF HasPrefix(s, "https://") THEN "https"
    ELSE IF HasPrefix(s, "http://") THEN "http" ELSE ""

\* the port check on the authority, colon being the place of its last ":"
urlCheckPort(scheme, auth, path, colon) ==
    IF colon # -1 /\ ~AllDigits(SubSeq(auth, colon + 2, Len(auth)))
    THEN [err |-> "invalid port after host", Scheme |-> "", Host |-> "", Path |-> ""]
    ELSE [err |-> "", Scheme |-> scheme, Host |-> auth, Path |-> path]

urlAuthority(scheme, auth, path) == urlCheckPort(scheme, auth, path, LastIndex(auth, ":"))

\* rest is what follows "://", slash the place of its first "/"
urlSplit(scheme, rest, slash) ==
    IF scheme = "" THEN urlAuthority("", "", rest)
    ELSE IF slash = -1 THEN urlAuthority(scheme, rest, "")
    ELSE urlAuthority(scheme, SubSeq(rest, 1, slash), SubSeq(rest, slash + 1, Len(rest)))

urlRest(scheme, rest) == urlSplit(scheme, rest, Index(rest, "/"))

urlSchemed(scheme, s) ==
    urlRest(scheme, IF scheme = "" THEN s ELSE SubSeq(s, Len(scheme) + 4, Len(s)))

urlParse(s) == urlSchemed(urlScheme(s), s)

\* net/http removeEmptyPort, applied by http.NewRequest to the URL's host
removeEmptyPort(host) == TrimSuffix(host, ":")

----------------------------------------------------------------------------
(* package config: Validate and what it calls *)

Ret(c, e) == [cfg |-> c, err |-> e]

applyAddressingStyle(c, endpoint) ==
    IF Contains(endpoint, "://") /\ Count(endpoint, "://") = 1
    THEN LET i        == Index(endpoint, "://")
             protocol == SubSeq(endpoint, 1, i)
             hostPath == SubSeq(endpoint, i + 4, Len(endpoint))
             styled   == IF c.PathStyle
                         THEN IF ~HasPrefix(hostPath, c.Bucket \o "/")
                              THEN c.Bucket \o "/" \o hostPath ELSE hostPath
                         ELSE IF ~HasPrefix(hostPath, c.Bucket \o ".")
                              THEN c.Bucket \o "." \o hostPath ELSE hostPath
         IN protocol \o "://" \o styled
    ELSE LET e == TrimPrefix(TrimPrefix(endpoint, "http://"), "https://")
             i == Index(e, "/")
         IN IF i # -1 THEN SubSeq(e, 1, i) ELSE e

\* lines 389-398: the template t with its placeholders filled in
ResolveTemplate(c, t) ==
    Ret([c EXCEPT !.Endpoint =
            applyAddressingStyle(c, IF ~HasPrefix(t, "http://") /\ ~HasPrefix(t, "https://")
                                    THEN (IF c.Insecure THEN "http://" ELSE "https://") \o t
                                    ELSE t)], "")

ResolveProviderEndpoint(c) ==
    IF c.Provider \notin DOMAIN Providers
    THEN Ret(c, "unknown provider: " \o c.Provider)
    ELSE ResolveTemplate(c, ReplaceAll(ReplaceAll(Providers[c.Provider], "<bucket>", c.Bucket),
                                       "<region>", c.Region))

\* a warning appended with no line separator
AppendWarningNoSeparator(w, line) == w \o line

AppendWarning(w, line) == (IF w # "" THEN w \o "\n" ELSE w) \o line

\* generateProviderWarnings without the deprecation advisory of lines 345-353
generateProviderWarningsNoDeprecation(c) ==
    IF c.ProviderCapabilities = NilCaps THEN c
    ELSE LET caps == c.ProviderCapabilities
             w1 == IF c.PathStyle /\ ~caps.PathStyleSupport
                   THEN IF c.DetectedProvider = "custom"
                        THEN AppendWarning(c.Warning,
                               "Warning: --path-style addressing may not be supported by this provider. Try removing --path-style flag.")
                        ELSE AppendWarning(c.Warning,
                               "Warning: --path-style addressing is not supported by "
                               \o caps.Name \o ". Try removing --path-style flag.")
                   ELSE c.Warning
             w2 == IF ~c.CheckPolicy THEN w1
                   ELSE IF c.DetectedProvider = "custom"
                        THEN AppendWarning(w1,
                               "Warning: --check-policy is not supported on all S3-Compatible providers. This feature may not work with your provider.")
                   ELSE IF caps.PolicySupport = "None"
                        THEN AppendWarning(w1,
                               "Warning: --check-policy is not supported by " \o caps.Name
                               \o ". Policy support: " \o caps.PolicySupport)
                   ELSE IF caps.PolicySupport # "Full"
                        THEN AppendWarning(w1,
                               "Warning: --check-policy has limited support for " \o caps.Name
                               \o ". Policy support: " \o caps.PolicySupport \o ". " \o caps.Notes)
                   ELSE w1
         IN [c EXCEPT !.Warning = w2]

\* a generator that writes into the profile the configuration points to
generateProviderWarningsIntoProfile(c) ==
    IF c.ProviderCapabilities = NilCaps THEN c
    ELSE [c EXCEPT !.ProviderCapabilities.Notes = @ \o " (checked)"]

\* the warnings without the generic policy warning of custom endpoints
generateProviderWarningsNoGeneric(c) ==
    IF c.ProviderCapabilities = NilCaps THEN c
    ELSE LET caps == c.ProviderCapabilities
             w1 == IF c.PathStyle /\ ~caps.PathStyleSupport
                   THEN IF c.DetectedProvider = "custom"
                        THEN AppendWarning(c.Warning,
                               "Warning: --path-style addressing may not be supported by this provider. Try removing --path-style flag.")
                        ELSE AppendWarning(c.Warning,
                               "Warning: --path-style addressing is not supported by "
                               \o caps.Name \o ". Try removing --path-style flag.")
                   ELSE IF c.PathStyle /\ c.DetectedProvider # "custom"
                           /\ caps.Notes # "" /\ Contains(caps.Notes, "deprecated")
                        THEN AppendWarning(c.Warning,
                               "Warning: --path-style addressing is deprecated for "
                               \o caps.Name \o ". " \o caps.Notes)
                        ELSE c.Warning
             w2 == IF ~c.CheckPolicy THEN w1
                   ELSE IF caps.PolicySupport = "None"
                        THEN AppendWarning(w1,
                               "Warning: --check-policy is not supported by " \o caps.Name
                               \o ". Policy support: " \o caps.PolicySupport)
                   ELSE IF caps.PolicySupport # "Full"
                        THEN AppendWarning(w1,
                               "Warning: --check-policy has limited support for " \o caps.Name
                               \o ". Policy support: " \o caps.PolicySupport \o ". " \o caps.Notes)
                   ELSE w1
         IN [c EXCEPT !.Warning = w2]

generateProviderWarnings(c) ==
    IF c.ProviderCapabilities = NilCaps THEN c
    ELSE LET caps == c.ProviderCapabilities
             w1 == IF c.PathStyle /\ ~caps.PathStyleSupport
                   THEN IF c.DetectedProvider = "custom"
                        THEN AppendWarning(c.Warning,
                               "Warning: --path-style addressing may not be supported by this provider. Try removing --path-style flag.")
                        ELSE AppendWarning(c.Warning,
                               "Warning: --path-style addressing is not supported by "
                               \o caps.Name \o ". Try removing --path-style flag.")
                   ELSE IF c.PathStyle /\ c.DetectedProvider # "custom"
                           /\ caps.Notes # "" /\ Contains(caps.Notes, "deprecated")
                        THEN AppendWarning(c.Warning,
                               "Warning: --path-style addressing is deprecated for "
                               \o caps.Name \o ". " \o caps.Notes)
                        ELSE c.Warning
             w2 == IF ~c.CheckPolicy THEN w1
                   ELSE IF c.DetectedProvider = "custom"
                        THEN AppendWarning(w1,
                               "Warning: --check-policy is not supported on all S3-Compatible providers. This feature may not work with your provider.")
                   ELSE IF caps.PolicySupport = "None"
                        THEN AppendWarning(w1,
                               "Warning: --check-policy is not supported by " \o caps.Name
                               \o ". Policy support: " \o caps.PolicySupport)
                   ELSE IF caps.PolicySupport # "Full"
                        THEN AppendWarning(w1,
                               "Warning: --check-policy has limited support for " \o caps.Name
                               \o ". Policy support: " \o caps.PolicySupport \o ". " \o caps.Notes)
                   ELSE w1
         IN [c EXCEPT !.Warning = w2]

\* lines 284-286: detect the provider and look its capabilities up
Detected(c, d) ==
    [c EXCEPT !.DetectedProvider = d, !.ProviderCapabilities = LookupCapabilities(d)]

DetectAndLookup(c) == Detected(c, DetectProvider(c.Endpoint))

\* lines 288-295: add the protocol
AddProtocol(c) ==
    IF c.Endpoint # "" /\ ~HasPrefix(c.Endpoint, "http://") /\ ~HasPrefix(c.Endpoint, "https://")
    THEN [c EXCEPT !.Endpoint = (IF c.Insecure THEN "http://" ELSE "https://") \o c.Endpoint]
    ELSE c

\* the checks after url.Parse of a Validate that refuses an addressing style the
\* profile marks unsupported
ValidateValuesRejectUnsupported(c, authType) ==
    IF authType # "sigv4" /\ authType # "sigv2"
    THEN Ret(c, "invalid auth-type: must be 'sigv4' or 'sigv2'")
    ELSE IF c.Port < 0 \/ c.Port > 65535
    THEN Ret(c, "invalid port: must be between 0 and 65535 (0 = auto-detect)")
    ELSE IF c.Timeout < 1
    THEN Ret(c, "invalid timeout: must be greater than 0")
    ELSE IF c.MaxRedirects < 0
    THEN Ret(c, "invalid max-redirects: must be 0 or greater")
    ELSE IF c.ProviderCapabilities # NilCaps /\ c.PathStyle
            /\ ~c.ProviderCapabilities.PathStyleSupport
    THEN Ret(c, "path-style addressing is not supported")
    ELSE Ret(generateProviderWarnings(c), "")

\* lines 302-326: the checks after url.Parse, authType being the lower-cased
\* auth-type
ValidateValues(c, authType) ==
    IF authType # "sigv4" /\ authType # "sigv2"
    THEN Ret(c, "invalid auth-type: must be 'sigv4' or 'sigv2'")
    ELSE IF c.Port < 0 \/ c.Port > 65535
    THEN Ret(c, "invalid port: must be between 0 and 65535 (0 = auto-detect)")
    ELSE IF c.Timeout < 1
    THEN Ret(c, "invalid timeout: must be greater than 0")
    ELSE IF c.MaxRedirects < 0
    THEN Ret(c, "invalid max-redirects: must be 0 or greater")
    ELSE Ret(generateProviderWarnings(c), "")

\* lines 297-300, u being url.Parse of the endpoint
ValidateParsed(c, u) ==
    IF u.err # "" THEN Ret(c, "invalid endpoint URL: " \o u.err)
    ELSE ValidateValues(c, ToLower(c.AuthType))

ValidateEndpoint(c) == ValidateParsed(c, urlParse(c.Endpoint))

\* lines 284-326, on the configuration with its endpoint resolved
ValidateRest(c0) == ValidateEndpoint(AddProtocol(DetectAndLookup(c0)))

\* lines 278-282: r is what ResolveProviderEndpoint returned
ValidateResolved(r) == IF r.err # "" THEN r ELSE ValidateRest(r.cfg)

\* Validate without the secret-key requirement
ValidateWithoutSecretCheck(c) ==
    IF c.Endpoint = "" /\ c.Provider = "" THEN Ret(c, "endpoint or provider is required")
    ELSE IF c.Bucket = "" THEN Ret(c, "bucket is required")
    ELSE IF c.AccessKey = "" THEN Ret(c, "access-key is required")
    ELSE IF c.Endpoint = "" /\ c.Provider # ""
         THEN ValidateResolved(ResolveProviderEndpoint(c))
         ELSE ValidateRest(c)

Validate(c) ==
    IF c.Endpoint = "" /\ c.Provider = "" THEN Ret(c, "endpoint or provider is required")
    ELSE IF c.Bucket = "" THEN Ret(c, "bucket is required")
    ELSE IF c.AccessKey = "" THEN Ret(c, "access-key is required")
    ELSE IF c.SecretKey = "" THEN Ret(c, "secret-key is required")
    ELSE IF c.Endpoint = "" /\ c.Provider # ""
         THEN ValidateResolved(ResolveProviderEndpoint(c))
         ELSE ValidateRest(c)

ToOutputConfig(c) ==
    [Endpoint |-> c.Endpoint, Bucket |-> c.Bucket, Region |-> c.Region,
     AccessKey |-> c.AccessKey, SecretKey |-> c.SecretKey, AuthType |-> c.AuthType,
     Port |-> c.Port, Insecure |-> c.Insecure, Timeout |-> c.Timeout,
     OutputFormat |-> c.OutputFormat, OutputFile |-> c.OutputFile,
     FollowRedirect |-> c.FollowRedirect, MaxRedirects |-> c.MaxRedirects,
     Verbose |-> c.Verbose, PathStyle |-> c.PathStyle]

----------------------------------------------------------------------------
(* package checker *)

\* s up to its first sep, all of s when sep does not occur
CutAt(s, idx) == IF idx # -1 THEN SubSeq(s, 1, idx) ELSE s

Before(s, sep) == CutAt(s, Index(s, sep))

ParseHostname(endpoint) ==
    Before(Before(TrimPrefix(TrimPrefix(endpoint, "http://"), "https://"), ":"), "/")

\* lines 197-221: the port scanned, or the default of the protocol
PortOrDefault(endpoint, found, port) ==
    IF found /\ port > 0 /\ port <= 65535 THEN port
    ELSE IF HasPrefix(endpoint, "https://") THEN 443
    ELSE IF HasPrefix(endpoint, "http://") THEN 80
    ELSE 443

\* lines 189-196: e is the endpoint without its protocol, idx the place of ":"
PortAfter(endpoint, e, idx) ==
    PortOrDefault(endpoint, idx # -1, ScanInt(Before(SubSeq(e, idx + 2, Len(e)), "/")))

PortOf(endpoint, e) == PortAfter(endpoint, e, Index(e, ":"))

ParsePort(endpoint) ==
    PortOf(endpoint, TrimPrefix(TrimPrefix(endpoint, "http://"), "https://"))

\* a checker that keeps the auth type as it was typed
NewAuthCheckerKeepCase(config) ==
    [Config |-> config, Endpoint |-> config.Endpoint, Bucket |-> config.Bucket,
     AccessKey |-> config.AccessKey, SecretKey |-> config.SecretKey,
     Region |-> config.Region, AuthType |-> config.AuthType,
     PathStyle |-> config.PathStyle, verbose |-> config.Verbose]

NewAuthChecker(config) ==
    [Config |-> config, Endpoint |-> config.Endpoint, Bucket |-> config.Bucket,
     AccessKey |-> config.AccessKey, SecretKey |-> config.SecretKey,
     Region |-> config.Region, AuthType |-> ToLower(config.AuthType),
     PathStyle |-> config.PathStyle, verbose |-> config.Verbose]

\* a cleanHost that takes ":443" and ":80" away under either scheme
cleanHostAnyScheme(host, scheme) ==
    IF HasSuffix(host, ":443") THEN SubSeq(host, 1, Len(host) - 4)
    ELSE IF HasSuffix(host, ":80") THEN SubSeq(host, 1, Len(host) - 3)
    ELSE host

cleanHost(host, scheme) ==
    IF scheme = "https" /\ HasSuffix(host, ":443") THEN SubSeq(host, 1, Len(host) - 4)
    ELSE IF scheme = "http" /\ HasSuffix(host, ":80") THEN SubSeq(host, 1, Len(host) - 3)
    ELSE host

----------------------------------------------------------------------------
(* Values the variables hold before the code that sets them has run *)

NoRequest ==
    [Method |-> "", URL |-> [Scheme |-> "", Host |-> "", Path |-> "", RawQuery |-> ""],
     Host |-> "", Header |-> <<>>]

NoResponse == [StatusCode |-> 0, Location |-> "", Body |-> ""]

NoReport ==
    [Config |-> [Nil |-> TRUE], Results |-> <<>>,
     Summary |-> [Total |-> 0, Passed |-> 0, Failed |-> 0, Warnings |-> 0, Skipped |-> 0]]

\* A configuration whose required fields are set, as ParseFlags leaves it for
\* --bucket b --access-key AKIAEXAMPLE --secret-key wJalrEXAMPLEKEY
BaseConfig ==
    [GetDefaultConfig EXCEPT !.Bucket = "b", !.AccessKey = "AKIAEXAMPLE",
                             !.SecretKey = "wJalrEXAMPLEKEY"]

IdleRest ==
    /\ args = <<>>
    /\ err = ""
    /\ exitCode = -1
    /\ req = NoRequest
    /\ resp = NoResponse
    /\ sends = <<>>
    /\ signs = 0
    /\ report = NoReport
    /\ emitted = {}
    /\ clock = 0

----------------------------------------------------------------------------
(* package time. A clock reading is a number of seconds after
   2024-01-01T00:00:00Z, a Monday; the formats are those of time.Format for the
   days of January 2024. *)

RECURSIVE Itoa(_)
Itoa(n) ==
    IF n < 10 THEN Char("0123456789", n + 1)
    ELSE Itoa(n \div 10) \o Char("0123456789", (n % 10) + 1)

Pad2(n) == IF n < 10 THEN "0" \o Itoa(n) ELSE Itoa(n)

DayOfMonth(t) == 1 + (t \div 86400)

Weekday(t) == <<"Mon", "Tue", "Wed", "Thu", "Fri", "Sat", "Sun">>[1 + ((t \div 86400) % 7)]

ClockHMS(t, sep) ==
    Pad2((t % 86400) \div 3600) \o sep \o Pad2((t % 3600) \div 60) \o sep \o Pad2(t % 60)

\* now.Format("20060102")
FormatDateStamp(t) == "202401" \o Pad2(DayOfMonth(t))

\* now.Format("20060102T150405Z")
FormatAmzDate(t) == FormatDateStamp(t) \o "T" \o ClockHMS(t, "") \o "Z"

\* now.Format(time.RFC1123), in UTC
FormatRFC1123(t) ==
    Weekday(t) \o ", " \o Pad2(DayOfMonth(t)) \o " Jan 2024 " \o ClockHMS(t, ":") \o " UTC"

\* now.Add(d).Unix(); 2024-01-01T00:00:00Z is 1704067200
UnixAfter(t, d) == 1704067200 + t + d

----------------------------------------------------------------------------
(* crypto: a digest is written as the term that names it, so that two digests are
   equal exactly when they are digests of the same key and text *)

hmacSHA256(key, input) == "HMAC-SHA256[" \o key \o "][" \o input \o "]"

hexEncode(b) == "hex(" \o b \o ")"

hashSHA256(input) == hexEncode("SHA256[" \o input \o "]")

\* url.QueryEscape on the characters an access key can hold; a hex digest has
\* none that is escaped
EscapeChar(c) ==
    CASE c = " " -> "+"
      [] c = "/" -> "%2F"
      [] c = "+" -> "%2B"
      [] c = "=" -> "%3D"
      [] c = "&" -> "%26"
      [] c = ":" -> "%3A"
      [] OTHER   -> c

RECURSIVE EscapeFirst(_, _)
EscapeFirst(s, n) ==
    IF n = 0 THEN "" ELSE EscapeFirst(s, n - 1) \o EscapeChar(Char(s, n))

QueryEscape(s) == EscapeFirst(s, Len(s))

----------------------------------------------------------------------------
(* package checker: AuthChecker *)

SetHeader(h, k, v) == (k :> v) @@ h

\* http.NewRequest("HEAD", bucketURL, nil), u being url.Parse of the URL
RequestFor(method, u) ==
    IF u.err # "" THEN [err |-> u.err, req |-> NoRequest]
    ELSE [err |-> "",
          req |-> [Method |-> method,
                   URL    |-> [Scheme |-> u.Scheme, Host |-> removeEmptyPort(u.Host),
                               Path |-> u.Path, RawQuery |-> ""],
                   Host   |-> removeEmptyPort(u.Host),
                   Header |-> <<>>]]

NewRequest(method, rawurl) == RequestFor(method, urlParse(rawurl))

\* lines 754-764: r is what http.NewRequest returned
WithHeaders(r, hostHeader, now) ==
    IF r.err # "" THEN r
    ELSE [err |-> "",
          req |-> [r.req EXCEPT !.Header =
                     SetHeader(SetHeader(SetHeader(@, "Host", hostHeader),
                                         "User-Agent", "s3-bucket-tester/1.0"),
                               "Date", FormatRFC1123(now))]]

\* lines 739-751: the bucket URL and the Host header for the cleaned host
BucketRequest(c, scheme, host, now) ==
    IF c.PathStyle
    THEN WithHeaders(NewRequest("HEAD", scheme \o "://" \o host \o "/" \o c.Bucket), host, now)
    ELSE WithHeaders(NewRequest("HEAD", scheme \o "://" \o c.Bucket \o "." \o host),
                     c.Bucket \o "." \o host, now)

\* createRequest with the endpoint's host taken as it is
RequestToKeepPort(c, e, now) ==
    IF e.err # "" THEN [err |-> "invalid endpoint: " \o e.err, req |-> NoRequest]
    ELSE BucketRequest(c, e.Scheme, e.Host, now)

createRequestKeepPort(c, now) == RequestToKeepPort(c, urlParse(c.Endpoint), now)

\* lines 731-737: e is url.Parse of the endpoint
RequestTo(c, e, now) ==
    IF e.err # "" THEN [err |-> "invalid endpoint: " \o e.err, req |-> NoRequest]
    ELSE BucketRequest(c, e.Scheme, cleanHost(e.Host, e.Scheme), now)

createRequest(c, now) == RequestTo(c, urlParse(c.Endpoint), now)

\* a signing key derived without the service step
getSignatureKeyNoService(c, dateStamp) ==
    hmacSHA256(hmacSHA256(hmacSHA256("AWS4" \o c.SecretKey, dateStamp), c.Region),
               "aws4_request")

getSignatureKey(c, dateStamp) ==
    LET kDate    == hmacSHA256("AWS4" \o c.SecretKey, dateStamp)
        kRegion  == hmacSHA256(kDate, c.Region)
        kService == hmacSHA256(kRegion, "s3")
    IN hmacSHA256(kService, "aws4_request")

\* a canonical request whose URI is "/" whatever the path of the request
canonicalRequestOfRoot(r, amzDate) ==
    r.Method \o "\n" \o "/" \o "\n" \o "" \o "\n"
        \o "host:" \o r.Host \o "\nx-amz-content-sha256:UNSIGNED-PAYLOAD\nx-amz-date:"
        \o amzDate \o "\n"
        \o "\n" \o "host;x-amz-content-sha256;x-amz-date" \o "\n" \o "UNSIGNED-PAYLOAD"

\* lines 779-787
canonicalRequestOf(r, amzDate) ==
    r.Method \o "\n" \o (IF r.URL.Path = "" THEN "/" ELSE r.URL.Path) \o "\n" \o "" \o "\n"
        \o "host:" \o r.Host \o "\nx-amz-content-sha256:UNSIGNED-PAYLOAD\nx-amz-date:"
        \o amzDate \o "\n"
        \o "\n" \o "host;x-amz-content-sha256;x-amz-date" \o "\n" \o "UNSIGNED-PAYLOAD"

\* lines 789-816
SignV4(c, r, amzDate, dateStamp, credentialScope) ==
    [r EXCEPT !.Header =
        SetHeader(SetHeader(SetHeader(@, "X-Amz-Date", amzDate),
                            "X-Amz-Content-Sha256", "UNSIGNED-PAYLOAD"),
                  "Authorization",
                  "AWS4-HMAC-SHA256 Credential=" \o c.AccessKey \o "/" \o credentialScope
                      \o ", SignedHeaders=" \o "host;x-amz-content-sha256;x-amz-date"
                      \o ", Signature="
                      \o hexEncode(hmacSHA256(getSignatureKey(c, dateStamp),
                                              "AWS4-HMAC-SHA256\n" \o amzDate \o "\n"
                                                 \o credentialScope \o "\n"
                                                 \o hashSHA256(canonicalRequestOf(r, amzDate)))))]

SignV4At(c, r, amzDate, dateStamp) ==
    SignV4(c, r, amzDate, dateStamp, dateStamp \o "/" \o c.Region \o "/s3/aws4_request")

\* a SigV4 signer that also sends the timeout of the configuration
addSigV4AuthWithTimeout(c, r, now) ==
    [SignV4At(c, r, FormatAmzDate(now), FormatDateStamp(now))
        EXCEPT !.Header = SetHeader(@, "X-Amz-Expires", Itoa(c.Config.Timeout))]

\* a SigV4 signer that reads the clock again, a second later, for the date stamp
addSigV4AuthDateReadAgain(c, r, now) ==
    SignV4At(c, r, FormatAmzDate(now), FormatDateStamp(now + 1))

addSigV4Auth(c, r, now) == SignV4At(c, r, FormatAmzDate(now), FormatDateStamp(now))

\* a canonicalized resource that is the request path in both styles, as the
\* canonical URI of SigV4 is
getCanonicalizedResourceAsPath(c, r) == IF r.URL.Path = "" THEN "/" ELSE r.URL.Path

getCanonicalizedResource(c, r) ==
    IF c.PathStyle
    THEN r.URL.Path \o (IF r.URL.Path = "" THEN "/" ELSE "")
    ELSE "/" \o c.Bucket
            \o (IF r.URL.Path # "" /\ r.URL.Path # "/" THEN r.URL.Path ELSE "")

createSigV2CanonicalString(c, r) ==
    r.Method \o "\n" \o "\n" \o "\n" \o r.Header["Date"] \o "\n"
        \o getCanonicalizedResource(c, r)

\* a query string that is set, whatever the request had before
SignV2QueryReplace(r1, q) == [r1 EXCEPT !.URL.RawQuery = q]

\* lines 829-848: r1 is the request with its Date header set
SignV2Query(r1, q) == [r1 EXCEPT !.URL.RawQuery = IF @ = "" THEN q ELSE @ \o "&" \o q]

SignV2(c, r1, now) ==
    SignV2Query(r1, "AWSAccessKeyId=" \o QueryEscape(c.AccessKey)
                       \o "&Signature="
                       \o hexEncode(hmacSHA256(c.SecretKey, createSigV2CanonicalString(c, r1)))
                       \o "&Expires=" \o Itoa(UnixAfter(now, 900)))

addSigV2Auth(c, r, now) ==
    SignV2(c, [r EXCEPT !.Header = SetHeader(@, "Date", FormatRFC1123(now))], now)

----------------------------------------------------------------------------
(* package config: ParseFlags *)

NilConfig == [Nil |-> TRUE]

ValueFlags ==
    {"--endpoint", "--bucket", "--access-key", "--secret-key", "--region", "--auth-type",
     "--timeout", "--output-file", "--max-redirects"}

\* --endpoint taking every value without a dot for a provider shortcut
SetValueShortcutByShape(c, flag, value) ==
    CASE flag = "--endpoint" ->
            IF ~Contains(value, ".") THEN [c EXCEPT !.Provider = value]
            ELSE [c EXCEPT !.Endpoint = value]
      [] flag = "--bucket"        -> [c EXCEPT !.Bucket = value]
      [] flag = "--access-key"    -> [c EXCEPT !.AccessKey = value]
      [] flag = "--secret-key"    -> [c EXCEPT !.SecretKey = value]
      [] flag = "--region"        -> [c EXCEPT !.Region = value]
      [] flag = "--auth-type"     -> [c EXCEPT !.AuthType = value]
      [] flag = "--timeout"       -> [c EXCEPT !.Timeout = ScanInt(value)]
      [] flag = "--output-file"   -> [c EXCEPT !.OutputFile = value]
      [] flag = "--max-redirects" -> [c EXCEPT !.MaxRedirects = ScanInt(value)]

\* the assignment a flag with a value makes
SetValue(c, flag, value) ==
    CASE flag = "--endpoint" ->
            IF value \in DOMAIN Providers THEN [c EXCEPT !.Provider = value]
            ELSE [c EXCEPT !.Endpoint = value]
      [] flag = "--bucket"        -> [c EXCEPT !.Bucket = value]
      [] flag = "--access-key"    -> [c EXCEPT !.AccessKey = value]
      [] flag = "--secret-key"    -> [c EXCEPT !.SecretKey = value]
      [] flag = "--region"        -> [c EXCEPT !.Region = value]
      [] flag = "--auth-type"     -> [c EXCEPT !.AuthType = value]
      [] flag = "--timeout"       -> [c EXCEPT !.Timeout = ScanInt(value)]
      [] flag = "--output-file"   -> [c EXCEPT !.OutputFile = value]
      [] flag = "--max-redirects" -> [c EXCEPT !.MaxRedirects = ScanInt(value)]

\* the switches with the style flag typed last deciding the style
SetSwitchLastStyleWins(c, flag) ==
    CASE flag = "--insecure"         -> [c EXCEPT !.Insecure = TRUE]
      [] flag = "--follow-redirects" -> [c EXCEPT !.FollowRedirect = TRUE]
      [] flag = "--no-redirects"     -> [c EXCEPT !.FollowRedirect = FALSE]
      [] flag = "--verbose"          -> [c EXCEPT !.Verbose = TRUE]
      [] flag = "--virtual-hosted"   -> [c EXCEPT !.VirtualHosted = TRUE, !.PathStyle = FALSE]
      [] flag = "--path-style"       -> [c EXCEPT !.PathStyle = TRUE, !.VirtualHosted = FALSE]

\* the assignment a flag without a value makes
SetSwitch(c, flag) ==
    CASE flag = "--insecure"         -> [c EXCEPT !.Insecure = TRUE]
      [] flag = "--follow-redirects" -> [c EXCEPT !.FollowRedirect = TRUE]
      [] flag = "--no-redirects"     -> [c EXCEPT !.FollowRedirect = FALSE]
      [] flag = "--verbose"          -> [c EXCEPT !.Verbose = TRUE]
      [] flag = "--virtual-hosted"   -> [c EXCEPT !.VirtualHosted = TRUE]
      [] flag = "--path-style"       -> [c EXCEPT !.PathStyle = TRUE]

SwitchFlags ==
    {"--insecure", "--follow-redirects", "--no-redirects", "--verbose",
     "--virtual-hosted", "--path-style"}

\* the result of ParseFlags: the configuration (nil with an error), the error, and
\* whether --help or --version ended the process with os.Exit(0)
Parsed(c, e, x) == [cfg |-> c, err |-> e, exited |-> x]

\* the loop of ParseFlags from argument i on, and the port detection after it
RECURSIVE ParseFrom(_, _, _)
ParseFrom(a, i, c) ==
    IF i > Len(a)
    THEN Parsed(IF c.Endpoint # "" THEN [c EXCEPT !.Port = ParsePort(c.Endpoint)] ELSE c,
                "", FALSE)
    ELSE IF a[i] \in {"--help", "-h", "--version"} THEN Parsed(NilConfig, "", TRUE)
    ELSE IF a[i] \in ValueFlags
         THEN IF i + 1 > Len(a) THEN Parsed(NilConfig, a[i] \o " requires a value", FALSE)
              ELSE ParseFrom(a, i + 2, SetValue(c, a[i], a[i + 1]))
    ELSE IF a[i] \in SwitchFlags THEN ParseFrom(a, i + 1, SetSwitch(c, a[i]))
    ELSE IF HasPrefix(a[i], "--") THEN Parsed(NilConfig, "unknown flag: " \o a[i], FALSE)
    ELSE ParseFrom(a, i + 1, c)

ParseFlags(a) == ParseFrom(a, 1, GetDefaultConfig)

----------------------------------------------------------------------------
(* package output *)

NewTestSummary(results) ==
    LET n(st) == Cardinality({i \in DOMAIN results : results[i].Status = st})
    IN [Total |-> Len(results), Passed |-> n("PASS"), Failed |-> n("FAIL"),
        Warnings |-> n("WARN"), Skipped |-> n("SKIP")]

\* What is written is kept as <<stream, field, text>>.
Out(stream, field, text) == <<stream, field, text>>

\* printConfig: the lines of the console report that show configuration text
printConfig(config) ==
    {Out("stdout", "Endpoint", config.Endpoint), Out("stdout", "Bucket", config.Bucket),
     Out("stdout", "Region", config.Region),
     Out("stdout", "Auth Type", ToUpper(config.AuthType))}

\* printResult: status and error of each result
printResults(results) ==
    UNION {{Out("stdout", results[i].TestName, results[i].Status),
            Out("stdout", "Error", results[i].Error)} : i \in DOMAIN results}

PrintConsole(r) == printConfig(r.Config) \cup printResults(r.Results)

\* PrintJSON: json.MarshalIndent(report) writes every tagged field of
\* output.Config and of the results to the file
PrintJSON(r) ==
    {Out("file", "config.endpoint", r.Config.Endpoint),
     Out("file", "config.bucket", r.Config.Bucket),
     Out("file", "config.region", r.Config.Region),
     Out("file", "config.accessKey", r.Config.AccessKey),
     Out("file", "config.secretKey", r.Config.SecretKey),
     Out("file", "config.authType", r.Config.AuthType),
     Out("file", "config.outputFormat", r.Config.OutputFormat),
     Out("file", "config.outputFile", r.Config.OutputFile)}
    \cup UNION {{Out("file", "results.testName", r.Results[i].TestName),
                 Out("file", "results.status", r.Results[i].Status),
                 Out("file", "results.error", r.Results[i].Error)} : i \in DOMAIN r.Results}

----------------------------------------------------------------------------
(* package checker: the verbose log of the authentication check *)

\* LogMessage calls of Check after createRequest
LogAuthStart(c) ==
    IF ~c.verbose THEN {}
    ELSE {Out("stdout", "Endpoint", c.Endpoint), Out("stdout", "Bucket", c.Bucket),
          Out("stdout", "Auth Type", ToUpper(c.AuthType))}

\* LogRequest: httputil.DumpRequestOut writes the request line, the Host and
\* every header
LogRequest(c, r) ==
    IF ~c.verbose THEN {}
    ELSE {Out("stdout", "request.path", r.URL.Path),
          Out("stdout", "request.query", r.URL.RawQuery),
          Out("stdout", "request.Host", r.Host)}
         \cup {Out("stdout", "request.header." \o h, r.Header[h]) :
                  h \in (DOMAIN r.Header) \ {"Host"}}

\* net.ParseIP(s) != nil for dotted decimal text
RECURSIVE SplitDots(_)
SplitDots(s) ==
    IF Index(s, ".") = -1 THEN <<s>>
    ELSE <<SubSeq(s, 1, Index(s, "."))>> \o SplitDots(SubSeq(s, Index(s, ".") + 2, Len(s)))

isIPAddress(s) ==
    LET parts == SplitDots(s)
    IN /\ Len(parts) = 4
       /\ \A i \in 1..4 : /\ parts[i] # ""
                          /\ Len(parts[i]) <= 3
                          /\ AllDigits(parts[i])
                          /\ DecimalValue(parts[i]) <= 255

\* xml.Unmarshal(body, &errResp) == nil: the body is an <Error> document
xmlIsError(body) == HasPrefix(body, "<Error>")

Result(name, status, error, details) ==
    [TestName |-> name, Status |-> status, Error |-> error, Details |-> details]

NoDetails == [Kind |-> "none"]

\* an outcome that takes every 2xx answer for granted access
AuthOutcomeGrantOnSuccess(c, response) ==
    LET code == response.StatusCode
        authResult ==
            [Kind |-> "auth",
             Success |-> (code >= 200 /\ code < 300),
             AuthType |-> ToUpper(c.AuthType),
             BucketExists |-> (code = 200 \/ code = 403),
             AccessGranted |-> (code >= 200 /\ code < 300),
             StatusCode |-> code,
             Endpoint |-> c.Endpoint]
    IN IF code >= 400
       THEN Result("Bucket Authentication Check", "FAIL",
                   IF xmlIsError(response.Body) THEN "Error: " \o response.Body
                   ELSE "HTTP " \o Itoa(code) \o ": " \o response.Body,
                   authResult)
       ELSE Result("Bucket Authentication Check", "PASS", "", authResult)

\* the AuthResult and TestResult Check builds from the response (lines 665-713)
AuthOutcome(c, response) ==
    LET code == response.StatusCode
        authResult ==
            [Kind |-> "auth",
             Success |-> (code >= 200 /\ code < 300),
             AuthType |-> ToUpper(c.AuthType),
             BucketExists |-> (code = 200 \/ code = 403),
             AccessGranted |-> (code = 200),
             StatusCode |-> code,
             Endpoint |-> c.Endpoint]
    IN IF code >= 400
       THEN Result("Bucket Authentication Check", "FAIL",
                   IF xmlIsError(response.Body) THEN "Error: " \o response.Body
                   ELSE "HTTP " \o Itoa(code) \o ": " \o response.Body,
                   authResult)
       ELSE Result("Bucket Authentication Check", "PASS", "", authResult)

----------------------------------------------------------------------------
(* SpecDetect: Validate on endpoints put together from the detector's
   substrings, in lower and mixed case, and from text no rule matches *)

MaxChunks == 2

DetectChunks ==
    {"amazonaws.com", "wasabisys.com", "backblazeb2.com", "objectstorage.cloud.ibm.com",
     "digitaloceanspaces.com", "minio", "aistor", "cloudflare", "r2", "hetzner",
     "ceph", "rgw", "dell", "ecs", "netapp", "storagegrid",
     "AmazonAWS.com", "WASABISYS.COM", "MinIO", "R2", "Hetzner", "StorageGRID",
     "s3.", "x-"}

RECURSIVE ChunkStrings(_)
ChunkStrings(n) ==
    IF n = 0 THEN {""}
    ELSE {c \o t : c \in DetectChunks, t \in ChunkStrings(n - 1)}

DetectInputs == UNION {ChunkStrings(n) : n \in 1..MaxChunks}

\* the receiver of Validate: an endpoint, with or without PathStyle and CheckPolicy
InitDetect ==
    /\ pc = "detect"
    /\ \E e \in DetectInputs : \E pathStyle, checkPolicy \in BOOLEAN :
          cfg = [BaseConfig EXCEPT !.Endpoint = e, !.PathStyle = pathStyle,
                                   !.CheckPolicy = checkPolicy]
    /\ IdleRest

Validated(r) == cfg' = r.cfg /\ err' = r.err

UnitValidate ==
    /\ pc = "detect"
    /\ Validated(Validate(cfg))
    /\ pc' = "detected"
    /\ UNCHANGED <<args, exitCode, req, resp, sends, signs, report, emitted, clock>>

NextDetect == UnitValidate

SpecDetect == InitDetect /\ [][NextDetect]_vars

\* The detector's rules in the order the claim gives them
RuleOrder ==
    << <<"amazonaws.com", "aws">>, <<"wasabisys.com", "wasabi">>,
       <<"backblazeb2.com", "b2">>, <<"objectstorage.cloud.ibm.com", "ibm">>,
       <<"digitaloceanspaces.com", "do">>, <<"minio", "minio">>, <<"aistor", "minio">>,
       <<"cloudflare", "cloudflare">>, <<"r2", "cloudflare">>, <<"hetzner", "hetzner">>,
       <<"ceph", "ceph">>, <<"rgw", "ceph">>, <<"dell", "dell">>, <<"ecs", "dell">>,
       <<"netapp", "netapp">>, <<"storagegrid", "netapp">> >>

\* the rules whose substring occurs in e, letter case ignored
MatchingRules(e) ==
    LET u == ToUpper(e)
    IN {i \in DOMAIN RuleOrder : Contains(u, ToUpper(RuleOrder[i][1]))}

EarliestRuleProvider(e) ==
    LET m == MatchingRules(e)
    IN IF m = {} THEN "custom" ELSE RuleOrder[MinOf(m)][2]

\* the endpoint as the user typed it: Validate only ever prepends the protocol
TypedEndpoint == TrimPrefix(cfg.Endpoint, "https://")

C10_FirstMatchCaseInsensitive ==
    pc = "detected" =>
        /\ cfg.DetectedProvider = EarliestRuleProvider(TypedEndpoint)
        /\ DetectProvider(ToUpper(TypedEndpoint)) = cfg.DetectedProvider
        /\ DetectProvider(ToLower(TypedEndpoint)) = cfg.DetectedProvider

\* an endpoint in mixed case that holds the substrings of two rules of different
\* providers, detected as the earlier one
C10_Witness ==
    /\ pc = "detected"
    /\ TypedEndpoint # ToLower(TypedEndpoint)
    /\ \E i, j \in MatchingRules(TypedEndpoint) :
          /\ i < j
          /\ RuleOrder[i][2] # RuleOrder[j][2]
          /\ cfg.DetectedProvider = RuleOrder[i][2]

----------------------------------------------------------------------------
(* SpecResolve: ParseFlags, Validate and createRequest on every endpoint that is
   a sequence of at most MaxEndpointTokens of the tokens below, typed with or
   without a protocol, and on every provider shortcut, in both styles *)

MaxEndpointTokens == 3

EndpointTokens == {"b", "s3", ".", "/", ":", "443", "80"}

RECURSIVE TokenStrings(_)
TokenStrings(n) ==
    IF n = 0 THEN {""}
    ELSE {c \o t : c \in EndpointTokens, t \in TokenStrings(n - 1)}

TypedProtocols == {"", "http://", "https://"}

ResolveEndpoints ==
    {p \o body : p \in TypedProtocols,
                 body \in UNION {TokenStrings(n) : n \in 1..MaxEndpointTokens}}

\* endpoints of providers that have no shortcut: one whose profile has no
\* path-style support, one that supports both styles
NamedEndpoints == {"acct.r2.cloudflarestorage.com", "minio.local:9000"}

\* an endpoint url.Parse accepts (its last colon is followed by digits) whose
\* bucket URL it refuses once cleanHost has removed the default port
MistypedEndpoints == {"s3.local:x:443"}

\* the style flags of a command line: none, one, or both in either order
StyleArgs ==
    {<<>>, <<"--path-style">>, <<"--virtual-hosted">>,
     <<"--path-style", "--virtual-hosted">>, <<"--virtual-hosted", "--path-style">>}

\* bucket names: one that also occurs as a label of the endpoints, one that does not
ResolveBuckets == {"b", "k-1"}

RequiredArgs(endpoint, bucket) ==
    <<"--endpoint", endpoint, "--bucket", bucket, "--access-key", "AKIAEXAMPLE",
      "--secret-key", "wJalrEXAMPLEKEY">>

IdleUnit ==
    /\ cfg = NilConfig
    /\ err = ""
    /\ exitCode = -1
    /\ req = NoRequest
    /\ resp = NoResponse
    /\ sends = <<>>
    /\ signs = 0
    /\ report = NoReport
    /\ emitted = {}
    /\ clock = 0

InitResolve ==
    /\ pc = "r_parse"
    /\ \E e \in ResolveEndpoints \cup NamedEndpoints \cup MistypedEndpoints
                  \cup DOMAIN Providers :
       \E bucket \in ResolveBuckets :
       \E style \in StyleArgs :
       \E insecure \in {<<>>, <<"--insecure">>} :
          /\ insecure # <<>> => ~HasPrefix(e, "http")
          /\ args = RequiredArgs(e, bucket) \o style \o insecure
    /\ IdleUnit

Parsing(r) == cfg' = r.cfg /\ err' = r.err

UnitParseFlags ==
    /\ pc = "r_parse"
    /\ Parsing(ParseFlags(args))
    /\ pc' = "r_validate"
    /\ UNCHANGED <<args, exitCode, req, resp, sends, signs, report, emitted, clock>>

Validating(r) ==
    /\ cfg' = r.cfg
    /\ err' = r.err
    /\ pc' = IF r.err # "" THEN "r_rejected" ELSE "r_create"

UnitResolveValidate ==
    /\ pc = "r_validate"
    /\ Validating(Validate(cfg))
    /\ UNCHANGED <<args, exitCode, req, resp, sends, signs, report, emitted, clock>>

Creating(r) ==
    /\ req' = r.req
    /\ err' = r.err
    /\ pc' = IF r.err # "" THEN "r_failed" ELSE "r_created"

UnitCreateRequest ==
    /\ pc = "r_create"
    /\ Creating(createRequest(NewAuthChecker(ToOutputConfig(cfg)), clock))
    /\ UNCHANGED <<args, cfg, exitCode, resp, sends, signs, report, emitted, clock>>

NextResolve == UnitParseFlags \/ UnitResolveValidate \/ UnitCreateRequest

SpecResolve == InitResolve /\ [][NextResolve]_vars

\* the URL of the request, as the endpoint of a second resolution
RequestURL == req.URL.Scheme \o "://" \o req.URL.Host \o req.URL.Path

ResolvedAgain ==
    createRequest([NewAuthChecker(ToOutputConfig(cfg)) EXCEPT !.Endpoint = RequestURL], clock)

\* C1: resolving the resolved target again, with the same style, gives the same
\* host and path: the bucket is not prepended a second time.
C1_ResolveIdempotent ==
    pc = "r_created" =>
        /\ ResolvedAgain.err = ""
        /\ ResolvedAgain.req.Host = req.Host
        /\ ResolvedAgain.req.URL.Path = req.URL.Path

\* C2: of "the host starts with <bucket>." and "the path starts with /<bucket>"
\* exactly one holds of every request built.
C2_ExactlyOneStyle ==
    pc = "r_created" =>
        (HasPrefix(req.Host, cfg.Bucket \o ".") # HasPrefix(req.URL.Path, "/" \o cfg.Bucket))

\* the host of the validated endpoint: the text between "://" and the next "/"
EndpointHost ==
    LET rest == SubSeq(cfg.Endpoint, Index(cfg.Endpoint, "://") + 4, Len(cfg.Endpoint))
    IN IF Index(rest, "/") = -1 THEN rest ELSE SubSeq(rest, 1, Index(rest, "/"))

EndpointScheme == SubSeq(cfg.Endpoint, 1, Index(cfg.Endpoint, "://"))

DefaultPortSuffix == IF EndpointScheme = "https" THEN ":443" ELSE ":80"

\* ... with a default port removed
CleanedEndpointHost == TrimSuffix(EndpointHost, DefaultPortSuffix)

C7_HostNeverEmpty ==
    pc \in {"r_create", "r_created", "r_failed"} => EndpointHost # ""

----------------------------------------------------------------------------
(* Spec: one run of main, from the command line to the exit code *)

\* how many options of a command line differ from the plain valid one
MaxDeviations == 2

\* how many redirect responses the servers of one run give
MaxServerRedirects == 2

\* seconds that may pass between two readings of the wall clock
MaxTick == 1

\* the options of the plain command line, in the order they are typed
PlainLine ==
    <<<<"--endpoint", "https://s3.example.com">>, <<"--bucket", "b">>,
      <<"--access-key", "AKIAEXAMPLE">>, <<"--secret-key", "wJalrEXAMPLEKEY">>,
      <<>>, <<>>, <<>>, <<>>, <<>>, <<>>, <<>>, <<>>>>

\* what may be typed instead at each position
Alternatives ==
    <<{<<"--endpoint", "aws">>, <<"--endpoint", "awz">>,
       <<"--endpoint", "http://minio.local:9000">>,
       <<"--endpoint", "https://b.s3.example.com:443">>,
       <<"--endpoint", "https://">>, <<"--endpoint", "192.168.0.10:9000">>, <<>>},
      {<<>>},
      {<<>>},
      {<<>>, <<"--secret-key", "">>},
      {<<"--auth-type", "SigV2">>, <<"--auth-type", "sigv3">>},
      {<<"--path-style">>, <<"--virtual-hosted">>},
      {<<"--insecure">>},
      {<<"--timeout", "0">>, <<"--timeout", "5s">>},
      {<<"--no-redirects">>, <<"--max-redirects", "1">>, <<"--max-redirects", "2">>,
       <<"--max-redirects", "-1">>},
      {<<"--verbose">>},
      {<<"--output-file", "out.json">>},
      {<<"--bogus">>, <<"--bucket">>, <<"--help">>, <<"stray">>}>>

RECURSIVE Flatten(_)
Flatten(parts) == IF parts = <<>> THEN <<>> ELSE Head(parts) \o Flatten(Tail(parts))

DeviationsAt(D) ==
    {f \in [D -> UNION {Alternatives[i] : i \in D}] : \A i \in D : f[i] \in Alternatives[i]}

CommandLines ==
    {Flatten([i \in DOMAIN PlainLine |-> IF i \in DOMAIN f THEN f[i] ELSE PlainLine[i]]) :
        f \in UNION {DeviationsAt(D) :
                        D \in {X \in SUBSET DOMAIN PlainLine : Cardinality(X) <= MaxDeviations}}}

\* what the servers may answer to the HEAD request
RedirectTarget == "https://b.s3.eu-west-1.example.com/"

FinalResponses ==
    {[StatusCode |-> code, Location |-> "", Body |-> ""] : code \in {200, 301, 403, 404, 500}}

RedirectResponses == {[StatusCode |-> 301, Location |-> RedirectTarget, Body |-> ""]}

ExitCodeSuccess == 0

ExitCodeFailed == 1

ExitCodeConfig == 2

Init ==
    /\ pc = "parse"
    /\ args \in CommandLines
    /\ cfg = NilConfig
    /\ err = ""
    /\ exitCode = -1
    /\ req = NoRequest
    /\ resp = NoResponse
    /\ sends = <<>>
    /\ signs = 0
    /\ report = NoReport
    /\ emitted = {}
    /\ clock = 0

\* main, lines 24-28, r being what ParseFlags returned
AfterParseFlags(r) ==
    IF r.exited
    THEN /\ pc' = "exited" /\ exitCode' = ExitCodeSuccess
         /\ UNCHANGED <<cfg, err, emitted>>
    ELSE IF r.err # ""
    THEN /\ pc' = "exited" /\ exitCode' = ExitCodeConfig /\ err' = r.err
         /\ emitted' = emitted \cup {Out("stderr", "Error", r.err)}
         /\ UNCHANGED cfg
    ELSE /\ pc' = "validate" /\ cfg' = r.cfg
         /\ UNCHANGED <<err, exitCode, emitted>>

DoParseFlags ==
    /\ pc = "parse"
    /\ AfterParseFlags(ParseFlags(args))
    /\ UNCHANGED <<args, req, resp, sends, signs, report, clock>>

\* the DEBUG lines main writes for a verbose run, lines 38-55
DebugProvider(c) ==
    IF ~c.Verbose THEN {}
    ELSE {Out("stderr", "DEBUG Detected provider", c.DetectedProvider)}
         \cup (IF c.ProviderCapabilities = NilCaps THEN {}
               ELSE {Out("stderr", "DEBUG Provider name", c.ProviderCapabilities.Name),
                     Out("stderr", "DEBUG Notes", c.ProviderCapabilities.Notes)})

\* main, lines 57-60
WarningCount(w) == IF w # "" THEN Count(w, "\n") + 1 ELSE 0

\* main, lines 31-80, r being what Validate returned and left in the configuration
AfterValidate(r) ==
    /\ cfg' = r.cfg
    /\ IF r.err # ""
       THEN /\ pc' = "exited" /\ exitCode' = ExitCodeConfig /\ err' = r.err
            /\ emitted' = emitted \cup {Out("stderr", "DEBUG Endpoint", cfg.Endpoint),
                                        Out("stderr", "Configuration error", r.err)}
            /\ UNCHANGED report
       ELSE /\ pc' = "dns"
            /\ emitted' = emitted \cup {Out("stderr", "DEBUG Endpoint", cfg.Endpoint)}
                             \cup DebugProvider(r.cfg)
                             \cup {Out("stderr", "DEBUG WarningCount",
                                        Itoa(WarningCount(r.cfg.Warning)))}
                             \cup (IF r.cfg.Warning # ""
                                   THEN {Out("stderr", "Warning", r.cfg.Warning)}
                                   ELSE {})
            /\ report' = [NoReport EXCEPT !.Config = ToOutputConfig(r.cfg)]
            /\ UNCHANGED <<err, exitCode>>

DoValidate ==
    /\ pc = "validate"
    /\ AfterValidate(Validate(cfg))
    /\ UNCHANGED <<args, req, resp, sends, signs, clock>>

AppendResult(r) == report' = [report EXCEPT !.Results = Append(@, r)]

\* a run that goes to the summary when the name does not resolve
RunDNSStopOnFailure ==
    /\ pc = "dns"
    /\ \E ok \in BOOLEAN :
          /\ isIPAddress(ParseHostname(cfg.Endpoint)) => ok
          /\ AppendResult(Result("DNS Resolution Check", IF ok THEN "PASS" ELSE "FAIL",
                                 IF ok THEN "" ELSE "DNS lookup failed", NoDetails))
          /\ pc' = IF ok THEN "tcp" ELSE "summary"
    /\ UNCHANGED <<args, cfg, err, exitCode, req, resp, sends, signs, emitted, clock>>

\* runTests, lines 115-117: the resolver answers or not; an address needs none
RunDNS ==
    /\ pc = "dns"
    /\ \E ok \in BOOLEAN :
          /\ isIPAddress(ParseHostname(cfg.Endpoint)) => ok
          /\ AppendResult(Result("DNS Resolution Check", IF ok THEN "PASS" ELSE "FAIL",
                                 IF ok THEN "" ELSE "DNS lookup failed", NoDetails))
    /\ pc' = "tcp"
    /\ UNCHANGED <<args, cfg, err, exitCode, req, resp, sends, signs, emitted, clock>>

\* runTests, lines 120-122
RunTCP ==
    /\ pc = "tcp"
    /\ \E ok \in BOOLEAN :
          AppendResult(Result("TCP Connectivity Check", IF ok THEN "PASS" ELSE "FAIL",
                              IF ok THEN "" ELSE "connection failed", NoDetails))
    /\ pc' = "tls"
    /\ UNCHANGED <<args, cfg, err, exitCode, req, resp, sends, signs, emitted, clock>>

\* runTests, lines 125-127
RunTLS ==
    /\ pc = "tls"
    /\ \E ok \in BOOLEAN :
          AppendResult(Result("SSL/TLS Certificate Check", IF ok THEN "PASS" ELSE "FAIL",
                              IF ok THEN "" ELSE "TLS handshake failed", NoDetails))
    /\ pc' = "auth"
    /\ UNCHANGED <<args, cfg, err, exitCode, req, resp, sends, signs, emitted, clock>>

\* Check, lines 620-646: the request is signed and logged
Signed(c, signed) ==
    /\ req' = signed
    /\ signs' = signs + 1
    /\ emitted' = emitted \cup LogAuthStart(c) \cup LogRequest(c, signed)
    /\ pc' = "send"
    /\ UNCHANGED report

\* Check, lines 605-646, r being what createRequest returned; the signer reads the
\* clock again, up to MaxTick seconds later
Prepared(c, r) ==
    IF r.err # ""
    THEN /\ AppendResult(Result("Bucket Authentication Check", "FAIL",
                                "failed to create request: " \o r.err, NoDetails))
         /\ pc' = "summary"
         /\ UNCHANGED <<req, signs, emitted, clock>>
    ELSE \E d \in 0..MaxTick :
            /\ clock' = clock + d
            /\ IF c.AuthType = "sigv2"
               THEN Signed(c, addSigV2Auth(c, r.req, clock'))
               ELSE Signed(c, addSigV4Auth(c, r.req, clock'))

PrepareWith(c) == Prepared(c, createRequest(c, clock))

\* AuthChecker.Check up to client.Do, lines 574-646
AuthPrepare ==
    /\ pc = "auth"
    /\ PrepareWith(NewAuthChecker(report.Config))
    /\ UNCHANGED <<args, cfg, err, exitCode, resp, sends>>

\* net/http: the request the client makes for the Location of a redirect
Redirected(r, next) == [r EXCEPT !.URL = next.URL, !.Host = next.Host]

Sent(r, hop) ==
    [Method |-> r.Method, Host |-> r.Host, Path |-> r.URL.Path, Query |-> r.URL.RawQuery,
     Hop |-> hop]

\* client.Do, line 647: one round trip; a redirect response goes through
\* CheckRedirect (lines 593-601) with via = the requests made so far
AuthSend ==
    /\ pc = "send"
    /\ sends' = Append(sends, Sent(req, Len(sends)))
    /\ \/ \* the transport fails
          /\ AppendResult(Result("Bucket Authentication Check", "FAIL",
                                 "request failed: connection error", NoDetails))
          /\ pc' = "summary"
          /\ UNCHANGED <<req, resp>>
       \/ \E response \in FinalResponses :
             /\ resp' = response
             /\ pc' = "respond"
             /\ UNCHANGED <<req, report>>
       \/ \E response \in RedirectResponses :
             /\ Len(sends) < MaxServerRedirects
             /\ IF ~report.Config.FollowRedirect
                THEN /\ resp' = response
                     /\ pc' = "respond"
                     /\ UNCHANGED <<req, report>>
                ELSE IF Len(sends') >= report.Config.MaxRedirects
                THEN /\ AppendResult(Result("Bucket Authentication Check", "FAIL",
                                            "request failed: stopped after "
                                               \o Itoa(report.Config.MaxRedirects)
                                               \o " redirects", NoDetails))
                     /\ pc' = "summary"
                     /\ UNCHANGED <<req, resp>>
                ELSE /\ req' = Redirected(req, NewRequest(req.Method, response.Location).req)
                     /\ pc' = "send"
                     /\ UNCHANGED <<resp, report>>
    /\ UNCHANGED <<args, cfg, err, exitCode, signs, emitted, clock>>

\* AuthChecker.Check after client.Do, lines 657-713, and runTests line 132
AuthRespond ==
    /\ pc = "respond"
    /\ AppendResult(AuthOutcome(NewAuthChecker(report.Config), resp))
    /\ pc' = "summary"
    /\ UNCHANGED <<args, cfg, err, exitCode, req, resp, sends, signs, emitted, clock>>

\* the end of main with the exit code of a run that passed, whatever the results
FinishedAlwaysSuccess(done) ==
    /\ report' = done
    /\ emitted' = emitted \cup PrintConsole(done)
                     \cup (IF cfg.OutputFile # "" THEN PrintJSON(done) ELSE {})
    /\ exitCode' = ExitCodeSuccess

\* main, lines 86-109. The policy check of runTests (lines 135-139) needs
\* CheckPolicy, which no flag of ParseFlags sets, so no run makes it.
Finished(done) ==
    /\ report' = done
    /\ emitted' = emitted \cup PrintConsole(done)
                     \cup (IF cfg.OutputFile # "" THEN PrintJSON(done) ELSE {})
    /\ exitCode' = IF done.Summary.Failed > 0 THEN ExitCodeFailed ELSE ExitCodeSuccess

Finish ==
    /\ pc = "summary"
    /\ Finished([report EXCEPT !.Summary = NewTestSummary(report.Results)])
    /\ pc' = "exited"
    /\ UNCHANGED <<args, cfg, err, req, resp, sends, signs, clock>>

Next ==
    \/ DoParseFlags
    \/ DoValidate
    \/ RunDNS
    \/ RunTCP
    \/ RunTLS
    \/ AuthPrepare
    \/ AuthSend
    \/ AuthRespond
    \/ Finish

Spec == Init /\ [][Next]_vars

----------------------------------------------------------------------------
(* Properties of a run *)

\* C4: no output of a run (standard error, console report, verbose log, JSON
\* file) carries the secret key value.
C4_SecretNeverEmitted ==
    (cfg # NilConfig /\ cfg.SecretKey # "") =>
        \A o \in emitted : o[3] # cfg.SecretKey

\* the result of the authentication check, once Check got a response
AuthAnswered ==
    /\ Len(report.Results) >= 4
    /\ report.Results[4].Details.Kind = "auth"

SentToFirstTarget ==
    {i \in DOMAIN sends : sends[i].Host = sends[1].Host /\ sends[i].Path = sends[1].Path}

\* C5: a response whose status is not 2xx gives the authentication check the
\* status FAIL, and the request went out exactly once.
C5_NonSuccessFails ==
    (AuthAnswered /\ ~(resp.StatusCode >= 200 /\ resp.StatusCode < 300)) =>
        /\ report.Results[4].Status = "FAIL"
        /\ Cardinality(SentToFirstTarget) = 1

ValidForSigning(c) ==
    /\ c.Bucket # "" /\ c.AccessKey # "" /\ c.SecretKey # ""
    /\ ToLower(c.AuthType) \in {"sigv4", "sigv2"}
    /\ c.Timeout >= 1
    /\ c.MaxRedirects >= 0

\* C6: an error of ParseFlags or Validate ends the run with exit code 2 before
\* any check is started and before any request is signed or sent; whenever a check
\* has started or a request is signed or sent, the configuration has a bucket, an
\* access key, a secret key, an auth-type sigv4 or sigv2 in any letter case, a
\* timeout of at least 1 and max-redirects of at least 0.
C6_ConfigErrorsAbort ==
    /\ err # "" =>
          /\ pc = "exited" /\ exitCode = ExitCodeConfig
          /\ report = NoReport /\ req = NoRequest /\ sends = <<>> /\ signs = 0
    /\ exitCode = ExitCodeConfig => err # ""
    /\ (pc \in {"dns", "tcp", "tls", "auth", "send", "respond", "summary"}
           \/ report # NoReport \/ req # NoRequest \/ sends # <<>> \/ signs > 0) =>
          /\ err = ""
          /\ ValidForSigning(cfg)
          /\ ValidForSigning(report.Config)
          /\ NewAuthChecker(report.Config).AuthType \in {"sigv4", "sigv2"}

\* a command line without a secret key, refused by Validate with exit code 2
C6_Witness ==
    /\ pc = "exited" /\ exitCode = ExitCodeConfig
    /\ cfg # NilConfig /\ cfg.SecretKey = ""
    /\ err = "secret-key is required"

\* the value typed after --endpoint
EndpointArgument ==
    IF \E i \in 1..(Len(args) - 1) : args[i] = "--endpoint"
    THEN args[1 + MaxOf({i \in 1..(Len(args) - 1) : args[i] = "--endpoint"})]
    ELSE ""

\* a bare word, as the provider shortcuts are, that is no key of Providers
UnknownShortcut ==
    /\ EndpointArgument # ""
    /\ ~Contains(EndpointArgument, ".") /\ ~Contains(EndpointArgument, ":")
    /\ ~Contains(EndpointArgument, "/")
    /\ EndpointArgument \notin DOMAIN Providers

\* C8 as stated: with an unknown provider shortcut the run never proceeds to the
\* checks.
C8_UnknownShortcutFatal ==
    UnknownShortcut => (pc \in {"parse", "validate", "exited"} /\ report = NoReport)

\* C8: ParseFlags takes a --endpoint value for a provider only when it is a key of
\* Providers; any other value, a bare word included, becomes the endpoint, gets a
\* scheme in Validate, and no run ends with the "unknown provider" error.
C8_UnknownShortcutIsEndpoint ==
    /\ ~HasPrefix(err, "unknown provider")
    /\ cfg # NilConfig =>
          /\ cfg.Provider \in (DOMAIN Providers) \cup {""}
          /\ UnknownShortcut =>
                /\ cfg.Provider = ""
                /\ cfg.Endpoint \in {EndpointArgument, "https://" \o EndpointArgument,
                                     "http://" \o EndpointArgument}

\* the bare word "awz" taken for a host: the run has reached the checks
C8_Witness ==
    /\ UnknownShortcut
    /\ pc = "dns"
    /\ cfg.Provider = ""
    /\ cfg.Endpoint = "https://awz"

----------------------------------------------------------------------------
(* Properties of Validate and createRequest: capabilities and warnings *)

\* lines 278-295: c, the configuration ParseFlags returned, with the endpoint of
\* its provider shortcut resolved and the protocol added
ResolvedConfig(c) ==
    AddProtocol(IF c.Endpoint = "" /\ c.Provider # "" THEN ResolveProviderEndpoint(c).cfg
                ELSE c)

PathRuleFires(c) ==
    /\ c.PathStyle
    /\ \/ ~c.ProviderCapabilities.PathStyleSupport
       \/ c.DetectedProvider # "custom" /\ Contains(c.ProviderCapabilities.Notes, "deprecated")

PolicyRuleFires(c) ==
    /\ c.CheckPolicy
    /\ c.DetectedProvider = "custom" \/ c.ProviderCapabilities.PolicySupport # "Full"

\* C12: with PathStyle set and CheckPolicy not set, a provider other than custom
\* whose profile has no path-style support gets exactly one warning, the "not
\* supported" one with the provider's name; a provider that supports path-style
\* and whose notes say "deprecated" gets exactly one warning, the deprecation
\* advisory, and no "not supported" warning; every other supporting provider gets
\* none; the two warnings never occur together.
C12_PathStyleWarning ==
    (pc = "detected" /\ err = "") =>
        /\ ~(/\ Contains(cfg.Warning, "Warning: --path-style addressing is not supported by ")
             /\ Contains(cfg.Warning, "Warning: --path-style addressing is deprecated for "))
        /\ (cfg.PathStyle /\ ~cfg.CheckPolicy) =>
              IF ~cfg.ProviderCapabilities.PathStyleSupport
              THEN /\ WarningCount(cfg.Warning) = 1
                   /\ cfg.DetectedProvider # "custom" =>
                         cfg.Warning = "Warning: --path-style addressing is not supported by "
                                          \o cfg.ProviderCapabilities.Name
                                          \o ". Try removing --path-style flag."
                   /\ cfg.DetectedProvider = "cloudflare" =>
                         /\ Contains(cfg.Warning, "Cloudflare R2")
                         /\ Contains(cfg.Warning, "path-style")
              ELSE IF Contains(cfg.ProviderCapabilities.Notes, "deprecated")
              THEN /\ WarningCount(cfg.Warning) = 1
                   /\ ~Contains(cfg.Warning, "not supported")
                   /\ Count(cfg.Warning,
                            "Warning: --path-style addressing is deprecated for ") = 1
                   /\ cfg.DetectedProvider = "aws"
              ELSE cfg.Warning = ""

\* Validate of an R2 endpoint with PathStyle: the one warning names Cloudflare R2
C12_Witness ==
    /\ pc = "detected" /\ err = ""
    /\ cfg.PathStyle /\ ~cfg.CheckPolicy
    /\ cfg.DetectedProvider = "cloudflare"
    /\ cfg.Warning = "Warning: --path-style addressing is not supported by Cloudflare R2. Try removing --path-style flag."

\* C13: the warnings of one Validate call are joined with exactly one line feed,
\* none at either end, so that the count main computes is the number of rules
\* that fired; when both the path-style rule and the policy rule fire, the
\* path-style warning comes first.
C13_WarningOrder ==
    (pc = "detected" /\ err = "") =>
        /\ WarningCount(cfg.Warning)
              = (IF PathRuleFires(cfg) THEN 1 ELSE 0) + (IF PolicyRuleFires(cfg) THEN 1 ELSE 0)
        /\ WarningCount(cfg.Warning) = Count(cfg.Warning, "Warning: ")
        /\ ~HasPrefix(cfg.Warning, "\n") /\ ~HasSuffix(cfg.Warning, "\n")
        /\ ~Contains(cfg.Warning, "\n\n")
        /\ (PathRuleFires(cfg) /\ PolicyRuleFires(cfg)) =>
              /\ Count(cfg.Warning, "\n") = 1
              /\ HasPrefix(cfg.Warning, "Warning: --path-style")
              /\ Contains(cfg.Warning, "\nWarning: --check-policy")
              /\ Index(cfg.Warning, "--path-style") < Index(cfg.Warning, "--check-policy")

\* both rules fired for an R2 endpoint
C13_Witness ==
    /\ pc = "detected" /\ err = ""
    /\ cfg.DetectedProvider = "cloudflare"
    /\ PathRuleFires(cfg) /\ PolicyRuleFires(cfg)
    /\ WarningCount(cfg.Warning) = 2

----------------------------------------------------------------------------
(* Properties of the signed request *)

\* a checker that has the endpoint, bucket, region, credentials, auth type and
\* style of the configuration i and, for the rest, the default configuration
CheckerOf(i) ==
    NewAuthChecker([ToOutputConfig(GetDefaultConfig) EXCEPT
                       !.Endpoint = i.Endpoint, !.Bucket = i.Bucket, !.Region = i.Region,
                       !.AccessKey = i.AccessKey, !.SecretKey = i.SecretKey,
                       !.AuthType = i.AuthType, !.PathStyle = i.PathStyle])

\* Check, lines 605-640: createRequest at clock reading t1, the signer at t2
SignAgain(c, t1, t2) ==
    IF c.AuthType = "sigv2" THEN addSigV2Auth(c, createRequest(c, t1).req, t2)
    ELSE addSigV4Auth(c, createRequest(c, t1).req, t2)

C15_CanonicalizedResource ==
    pc = "r_created" =>
        /\ getCanonicalizedResource(NewAuthChecker(ToOutputConfig(cfg)), req) = "/" \o cfg.Bucket
        /\ IF cfg.PathStyle THEN req.URL.Path = "/" \o cfg.Bucket
           ELSE req.URL.Path \in {"", "/"}

\* a virtual-hosted request, whose path is empty, with the resource "/k-1"
C15_Witness ==
    /\ pc = "r_created"
    /\ ~cfg.PathStyle
    /\ req.URL.Path = ""
    /\ cfg.Bucket = "k-1"
    /\ getCanonicalizedResource(NewAuthChecker(ToOutputConfig(cfg)), req) = "/k-1"

----------------------------------------------------------------------------
(* Properties of the end of a run *)

\* some check of the run has the status FAIL
SomeCheckFailed == \E i \in DOMAIN report.Results : report.Results[i].Status = "FAIL"

\* C16: the process exits with 2 exactly when ParseFlags or Validate returned an
\* error (no check was run then), with 1 exactly when some check result has the
\* status FAIL, and with 0 exactly when there was no such error and no result has
\* the status FAIL, which includes --help and --version; it exits with
\* no other code, and only from these places.
C16_ExitCode ==
    /\ pc # "exited" => exitCode = -1
    /\ pc = "exited" =>
          /\ exitCode \in {ExitCodeSuccess, ExitCodeFailed, ExitCodeConfig}
          /\ exitCode = ExitCodeConfig <=> err # ""
          /\ exitCode = ExitCodeFailed <=> SomeCheckFailed
          /\ exitCode = ExitCodeSuccess <=> (err = "" /\ ~SomeCheckFailed)
          /\ err # "" => report.Results = <<>>
          /\ SomeCheckFailed => report.Summary.Failed > 0

\* a run that ends with 1 because the authentication check alone failed
C16_Witness ==
    /\ pc = "exited"
    /\ exitCode = ExitCodeFailed
    /\ Len(report.Results) = 4
    /\ \A i \in 1..3 : report.Results[i].Status = "PASS"
    /\ report.Results[4].Status = "FAIL"

----------------------------------------------------------------------------
(* Properties of the redirects *)

\* client.Do ended with the error of CheckRedirect
AuthStopped ==
    /\ Len(report.Results) >= 4
    /\ HasPrefix(report.Results[4].Error, "request failed: stopped after ")

\* C17: the redirects followed are the requests made after the first one. With
\* redirect following enabled and MaxRedirects = n the check follows
\* up to n redirects and stops, with "stopped after n redirects", only at redirect
\* n + 1, when n + 1 requests have been made; with --no-redirects no redirect is
\* followed and the check does not stop with that error.
C17_FollowsUpToMax ==
    sends # <<>> =>
        IF report.Config.FollowRedirect
        THEN /\ Len(sends) - 1 <= report.Config.MaxRedirects
             /\ AuthStopped => Len(sends) = report.Config.MaxRedirects + 1
        ELSE Len(sends) = 1 /\ ~AuthStopped

----------------------------------------------------------------------------
(* Properties of the port *)

\* the port the authentication request goes to: the one written in the validated
\* endpoint (the text after the last ":" of its host), or else the default port of
\* its scheme
RequestPort ==
    LET i    == LastIndex(EndpointHost, ":")
        text == IF i = -1 THEN "" ELSE SubSeq(EndpointHost, i + 2, Len(EndpointHost))
    IN IF text # "" THEN DecimalValue(text)
       ELSE IF EndpointScheme = "https" THEN 443 ELSE 80

\* C18: after ParseFlags and Validate have succeeded, for an endpoint typed in
\* full and for a provider shortcut alike, Config.Port is a port number in
\* 1..65535: the port written in the endpoint, or else the default port of the
\* validated endpoint's scheme, which is where the authentication request goes.
C18_PortDetected ==
    pc \in {"r_create", "r_created", "r_failed"} =>
        /\ cfg.Port \in 1..65535
        /\ cfg.Port = RequestPort

----------------------------------------------------------------------------
(* Properties of the addressing style *)

\* --path-style is among the arguments
PathStyleGiven == \E i \in DOMAIN args : args[i] = "--path-style"

\* the command line with the two style flags in each other's place
SwapStyleFlags(a) ==
    [i \in DOMAIN a |-> IF a[i] = "--path-style" THEN "--virtual-hosted"
                        ELSE IF a[i] = "--virtual-hosted" THEN "--path-style"
                        ELSE a[i]]

\* the branch of createRequest (lines 743-751) that built the request
PathStyleApplied ==
    /\ req.URL.Path = "/" \o cfg.Bucket
    /\ req.Header["Host"] = CleanedEndpointHost

VirtualHostedApplied ==
    /\ req.URL.Path = ""
    /\ req.Header["Host"] = cfg.Bucket \o "." \o CleanedEndpointHost

\* C19: every request is built in exactly one style: path-style when
\* --path-style is among the arguments, virtual-hosted when it is not, whether
\* or not --virtual-hosted is given; with both flags given, typing them in the
\* other order gives the same configuration.
C19_OneStyle ==
    /\ pc # "r_parse" => (cfg.PathStyle <=> PathStyleGiven)
    /\ pc = "r_created" =>
          /\ PathStyleApplied # VirtualHostedApplied
          /\ PathStyleApplied <=> PathStyleGiven
    /\ (pc # "r_parse" /\ PathStyleGiven
           /\ \E i \in DOMAIN args : args[i] = "--virtual-hosted") =>
          ParseFlags(SwapStyleFlags(args)).cfg = ParseFlags(args).cfg

\* both flags given, --path-style first: the request is a path-style request
C19_Witness ==
    /\ pc = "r_created"
    /\ \E i, j \in DOMAIN args :
          i < j /\ args[i] = "--path-style" /\ args[j] = "--virtual-hosted"
    /\ PathStyleApplied
    /\ ~VirtualHostedApplied

\* the host of a provider's template without the bucket: "<bucket>." in front
\* and "/<bucket>" at the end taken away, the region filled in
BareTemplateHost(c) ==
    ReplaceAll(TrimSuffix(TrimPrefix(Providers[c.Provider], "<bucket>."), "/<bucket>"),
               "<region>", c.Region)

\* C20: a provider shortcut resolved with path-style gives an endpoint whose host
\* is the bare host of the template, with the region filled in, and not the
\* bucket name.
C20_ShortcutPathStyleHost ==
    (pc \in {"r_create", "r_created", "r_failed"} /\ cfg.Provider # "" /\ cfg.PathStyle) =>
        /\ EndpointHost # cfg.Bucket
        /\ EndpointHost = BareTemplateHost(cfg)

----------------------------------------------------------------------------
(* SpecSign: Validate, createRequest and the signer Check chooses, on
   configurations that differ in endpoint, region, access key, auth type and
   style, signed around midnight; the signer is also given requests that
   already have a query string *)

SignEndpoints ==
    {"https://s3.example.com:443", "http://minio.local:9000", "https://s3.example.com:80"}

SignAuthTypes == {"sigv4", "SigV4", "sigv2", "SIGV2", "sigv3"}

\* the receivers of Validate
SignConfigs ==
    {[BaseConfig EXCEPT !.Endpoint = e, !.Region = region, !.AccessKey = key,
                        !.AuthType = authType, !.PathStyle = pathStyle] :
        e \in SignEndpoints, region \in {"us-east-1", "eu-west-1"},
        key \in {"AKIAEXAMPLE", "AK/IA+1"}, authType \in SignAuthTypes,
        pathStyle \in BOOLEAN}

\* clock readings at the start: midnight and the last second of 1 January
SignClocks == {0, 86399}

\* query strings of the requests given to the signer
PriorQueries == {"versioning", "a=1&b=2"}

InitSign ==
    /\ pc = "s_validate"
    /\ cfg \in SignConfigs
    /\ clock \in SignClocks
    /\ args = <<>>
    /\ err = ""
    /\ exitCode = -1
    /\ req = NoRequest
    /\ resp = NoResponse
    /\ sends = <<>>
    /\ signs = 0
    /\ report = NoReport
    /\ emitted = {}

SignValidated(r) ==
    /\ cfg' = r.cfg
    /\ err' = r.err
    /\ pc' = IF r.err # "" THEN "s_rejected" ELSE "s_create"

SignValidate ==
    /\ pc = "s_validate"
    /\ SignValidated(Validate(cfg))
    /\ UNCHANGED <<args, exitCode, req, resp, sends, signs, report, emitted, clock>>

SignCreated(r) ==
    /\ req' = r.req
    /\ err' = r.err
    /\ pc' = IF r.err # "" THEN "s_failed" ELSE "s_sign"

\* Check, line 605
SignCreate ==
    /\ pc = "s_create"
    /\ SignCreated(createRequest(NewAuthChecker(ToOutputConfig(cfg)), clock))
    /\ UNCHANGED <<args, cfg, exitCode, resp, sends, signs, report, emitted, clock>>

\* the request a caller gives to the signer has a query string
SignGivenQuery ==
    /\ pc = "s_sign"
    /\ req.URL.RawQuery = ""
    /\ \E q \in PriorQueries : req' = [req EXCEPT !.URL.RawQuery = q]
    /\ UNCHANGED <<pc, args, cfg, err, exitCode, resp, sends, signs, report, emitted, clock>>

\* Check, lines 620-640: the signer for the checker's auth type, reading the clock as now
SignWith(c, r, now) ==
    IF c.AuthType = "sigv2" THEN addSigV2Auth(c, r, now) ELSE addSigV4Auth(c, r, now)

\* the signer reads the clock once, up to MaxTick seconds after createRequest
\* did, and up to MaxTick seconds pass while it works
SignRequest ==
    /\ pc = "s_sign"
    /\ \E d, e \in 0..MaxTick :
          /\ req' = SignWith(NewAuthChecker(ToOutputConfig(cfg)), req, clock + d)
          /\ clock' = clock + d + e
    /\ signs' = signs + 1
    /\ pc' = "s_signed"
    /\ UNCHANGED <<args, cfg, err, exitCode, resp, sends, report, emitted>>

NextSign == SignValidate \/ SignCreate \/ SignGivenQuery \/ SignRequest

SpecSign == InitSign /\ [][NextSign]_vars

----------------------------------------------------------------------------
(* Properties of the signers *)

\* the clock readings the signer of a signed request can have made
SigningInstants == {t \in 0..clock : clock - t <= MaxTick}

\* every time-derived value of a SigV4 request is the one of the instant t
SigV4TimesOf(t) ==
    /\ req.Header["X-Amz-Date"] = FormatAmzDate(t)
    /\ SubSeq(req.Header["X-Amz-Date"], 1, 8) = FormatDateStamp(t)
    /\ Contains(req.Header["Authorization"],
                "Credential=" \o cfg.AccessKey \o "/" \o FormatDateStamp(t) \o "/")
    /\ Contains(req.Header["Authorization"],
                hmacSHA256("AWS4" \o cfg.SecretKey, FormatDateStamp(t)))
    /\ Contains(req.Header["Authorization"], "x-amz-date:" \o FormatAmzDate(t) \o "\n")
    /\ Contains(req.Header["Authorization"],
                "[AWS4-HMAC-SHA256\n" \o FormatAmzDate(t) \o "\n" \o FormatDateStamp(t) \o "/")

\* every time-derived value of a SigV2 request is the one of the instant t
SigV2TimesOf(t) ==
    /\ req.Header["Date"] = FormatRFC1123(t)
    /\ Contains(req.URL.RawQuery, "[HEAD\n\n\n" \o FormatRFC1123(t) \o "\n/")
    /\ HasSuffix(req.URL.RawQuery, "&Expires=" \o Itoa(1704067200 + t + 900))

\* C21: every time-derived value of a signed request is the one of a single
\* clock reading, also when time passes while the signer works. SigV4: the
\* X-Amz-Date header, its date part, the date of the credential scope, the date
\* stamp the signing key starts from and the x-amz-date canonical header.
\* SigV2: the Date header, the date of the canonical string and Expires less
\* 900 seconds.
C21_OneClockReading ==
    pc = "s_signed" =>
        \E t \in SigningInstants :
            IF ToLower(cfg.AuthType) = "sigv2" THEN SigV2TimesOf(t) ELSE SigV4TimesOf(t)

\* a SigV4 request signed in the last second of 1 January, the clock showing
\* 2 January when the signer returns
C21_Witness ==
    /\ pc = "s_signed"
    /\ clock = 86400
    /\ "X-Amz-Date" \in DOMAIN req.Header
    /\ req.Header["X-Amz-Date"] = "20240101T235959Z"
    /\ Contains(req.Header["Authorization"], "/20240101/")

\* C22: the canonical request whose hash SigV4 signs has, as its URI, the path
\* of the request ("/" for the empty path of a virtual-hosted request,
\* "/<bucket>" for a path-style one) and, as its host header, the host the
\* request is sent with: the endpoint's host without a default port, other
\* ports kept, with "<bucket>." in front for virtual-hosted.
C22_SignsWhatIsSent ==
    (pc = "s_signed" /\ ToLower(cfg.AuthType) = "sigv4") =>
        /\ req.URL.Host = req.Host
        /\ req.URL.Path = (IF cfg.PathStyle THEN "/" \o cfg.Bucket ELSE "")
        /\ req.Host = (IF cfg.PathStyle THEN "" ELSE cfg.Bucket \o ".") \o CleanedEndpointHost
        /\ Contains(req.Header["Authorization"],
                    "SHA256[" \o req.Method \o "\n"
                        \o (IF req.URL.Path = "" THEN "/" ELSE req.URL.Path) \o "\n\n"
                        \o "host:" \o req.Host \o "\n"
                        \o "x-amz-content-sha256:UNSIGNED-PAYLOAD\n"
                        \o "x-amz-date:" \o req.Header["X-Amz-Date"] \o "\n\n"
                        \o "host;x-amz-content-sha256;x-amz-date\nUNSIGNED-PAYLOAD]")

\* a path-style SigV4 request to an endpoint with a port of its own
C22_Witness ==
    /\ pc = "s_signed"
    /\ ToLower(cfg.AuthType) = "sigv4"
    /\ cfg.PathStyle
    /\ req.Host = "minio.local:9000"
    /\ Contains(req.Header["Authorization"], "[HEAD\n/b\n\nhost:minio.local:9000\n")

\* C23: the Authorization header of a SigV4 request is, for the date stamp
\* YYYYMMDD of the signing instant, "AWS4-HMAC-SHA256 Credential=<access key>/
\* <YYYYMMDD>/<region>/s3/aws4_request, SignedHeaders=host;x-amz-content-sha256;
\* x-amz-date, Signature=" followed by the hex form of the HMAC, under the key
\* derived from "AWS4"+secret by the date stamp, the region, "s3" and
\* "aws4_request" in this order, of a string to sign that begins with the
\* algorithm, the X-Amz-Date and the credential scope.
C23_AuthorizationHeader ==
    (pc = "s_signed" /\ ToLower(cfg.AuthType) = "sigv4") =>
        \E t \in SigningInstants :
            /\ HasPrefix(req.Header["Authorization"],
                   "AWS4-HMAC-SHA256 Credential=" \o cfg.AccessKey \o "/" \o FormatDateStamp(t)
                      \o "/" \o cfg.Region \o "/s3/aws4_request"
                      \o ", SignedHeaders=host;x-amz-content-sha256;x-amz-date"
                      \o ", Signature=hex(HMAC-SHA256["
                      \o hmacSHA256(hmacSHA256(hmacSHA256(hmacSHA256("AWS4" \o cfg.SecretKey,
                                                                     FormatDateStamp(t)),
                                                          cfg.Region), "s3"), "aws4_request")
                      \o "][AWS4-HMAC-SHA256\n" \o FormatAmzDate(t) \o "\n"
                      \o FormatDateStamp(t) \o "/" \o cfg.Region \o "/s3/aws4_request\n"
                      \o "hex(SHA256[" \o req.Method \o "\n")
            /\ HasSuffix(req.Header["Authorization"], "UNSIGNED-PAYLOAD])])")
            /\ Count(req.Header["Authorization"], ", ") = 2

\* the header of a request signed on 2 January for eu-west-1, with an access key
\* that has a slash and a plus sign
C23_Witness ==
    /\ pc = "s_signed"
    /\ cfg.AuthType = "SigV4"
    /\ HasPrefix(req.Header["Authorization"],
                 "AWS4-HMAC-SHA256 Credential=AK/IA+1/20240102/eu-west-1/s3/aws4_request, "
                    \o "SignedHeaders=host;x-amz-content-sha256;x-amz-date, Signature=")

\* C24: the SigV2 signer, given a request with the query string q, leaves it with
\* "AWSAccessKeyId=<access key, URL-escaped>&Signature=<signature>&Expires=<e>",
\* in this order, after "q&" when q is not empty and alone when it is; e is the
\* Unix time of the signing instant plus 900, and the signature is the HMAC
\* under the secret key of the canonical string with the Date header's date.
C24_SigV2Query ==
    [][(pc = "s_sign" /\ pc' = "s_signed" /\ ToLower(cfg.AuthType) = "sigv2") =>
          \E t \in clock..clock' :
             /\ req'.Header["Date"] = FormatRFC1123(t)
             /\ req'.URL.RawQuery =
                   (IF req.URL.RawQuery = "" THEN "" ELSE req.URL.RawQuery \o "&")
                      \o "AWSAccessKeyId=" \o QueryEscape(cfg.AccessKey)
                      \o "&Signature="
                      \o hexEncode(hmacSHA256(cfg.SecretKey,
                                              "HEAD\n\n\n" \o req'.Header["Date"] \o "\n/"
                                                 \o cfg.Bucket))
                      \o "&Expires=" \o Itoa(1704067200 + t + 900)]_vars

\* a request that had the query "a=1&b=2", signed at 00:00:00 of 2 January
C24_Witness ==
    /\ pc = "s_signed"
    /\ HasPrefix(req.URL.RawQuery, "a=1&b=2&AWSAccessKeyId=AK%2FIA%2B1&Signature=hex(")
    /\ HasSuffix(req.URL.RawQuery, "&Expires=1704154500")

\* C25: the signer leaves the output of one protocol only. An auth type that is
\* "sigv2" in any letter case: the query string gets AWSAccessKeyId, Signature
\* and Expires, and the request has no Authorization, X-Amz-Date or
\* X-Amz-Content-Sha256 header. Otherwise the auth type is "sigv4" in some letter
\* case: the three headers are set and the query string is as it was, empty for
\* a request createRequest built. Nothing else reaches the signer: Validate has
\* refused it.
C25_OneProtocol ==
    [][(pc = "s_sign" /\ pc' = "s_signed") =>
          /\ ToLower(cfg.AuthType) \in {"sigv2", "sigv4"}
          /\ IF ToLower(cfg.AuthType) = "sigv2"
             THEN /\ DOMAIN req'.Header = DOMAIN req.Header
                  /\ DOMAIN req'.Header
                        \cap {"Authorization", "X-Amz-Date", "X-Amz-Content-Sha256"} = {}
                  /\ Count(req'.URL.RawQuery, "AWSAccessKeyId=") = 1
                  /\ Count(req'.URL.RawQuery, "&Signature=") = 1
                  /\ Count(req'.URL.RawQuery, "&Expires=") = 1
             ELSE /\ DOMAIN req'.Header =
                        DOMAIN req.Header
                           \cup {"Authorization", "X-Amz-Date", "X-Amz-Content-Sha256"}
                  /\ req'.URL.RawQuery = req.URL.RawQuery
                  /\ ~Contains(req'.URL.RawQuery, "AWSAccessKeyId=")
                  /\ ~Contains(req'.URL.RawQuery, "Signature=")]_vars

\* a request of a configuration with --auth-type SIGV2, signed with SigV2
C25_Witness ==
    /\ pc = "s_signed"
    /\ cfg.AuthType = "SIGV2"
    /\ HasPrefix(req.URL.RawQuery, "AWSAccessKeyId=")
    /\ DOMAIN req.Header = {"Host", "User-Agent", "Date"}

----------------------------------------------------------------------------
(* Properties of cleanHost *)

----------------------------------------------------------------------------
(* Properties of the policy warning *)

\* C27: with CheckPolicy set, Validate leaves exactly one policy warning when
\* the detected provider is custom or its PolicySupport is not "Full", and none
\* for a known provider with "Full"; without CheckPolicy it leaves none. The
\* warning of a custom endpoint is the generic one; that of a known provider
\* names the provider and its support level and, when the level is not "None",
\* says "limited support" and ends with the notes; for the level "None", which
\* no profile of the registry has, the generator says "not supported".
C27_PolicyWarning ==
    (pc = "detected" /\ err = "") =>
        /\ Count(cfg.Warning, "Warning: --check-policy") =
              (IF cfg.CheckPolicy /\ (\/ cfg.DetectedProvider = "custom"
                                      \/ cfg.ProviderCapabilities.PolicySupport # "Full")
               THEN 1 ELSE 0)
        /\ Count(cfg.Warning, "--check-policy") = Count(cfg.Warning, "Warning: --check-policy")
        /\ (cfg.CheckPolicy /\ cfg.DetectedProvider = "custom") =>
              HasSuffix(cfg.Warning, "Warning: --check-policy is not supported on all S3-Compatible providers. This feature may not work with your provider.")
        /\ (cfg.CheckPolicy /\ cfg.DetectedProvider # "custom"
               /\ cfg.ProviderCapabilities.PolicySupport # "Full") =>
              /\ cfg.ProviderCapabilities.PolicySupport # "None"
              /\ HasSuffix(cfg.Warning,
                     "Warning: --check-policy has limited support for "
                        \o cfg.ProviderCapabilities.Name \o ". Policy support: "
                        \o cfg.ProviderCapabilities.PolicySupport \o ". "
                        \o cfg.ProviderCapabilities.Notes)
        /\ (cfg.CheckPolicy /\ cfg.DetectedProvider # "custom") =>
              generateProviderWarnings(
                 [cfg EXCEPT !.Warning = "", !.PathStyle = FALSE,
                             !.ProviderCapabilities.PolicySupport = "None"]).Warning
                 = "Warning: --check-policy is not supported by "
                      \o cfg.ProviderCapabilities.Name \o ". Policy support: None"

\* the policy warning of a Hetzner endpoint, whose policy support is "Partial"
C27_Witness ==
    /\ pc = "detected" /\ err = ""
    /\ cfg.CheckPolicy /\ ~cfg.PathStyle
    /\ cfg.DetectedProvider = "hetzner"
    /\ cfg.Warning = "Warning: --check-policy has limited support for Hetzner Storage Boxes (S3). Policy support: Partial. Basic S3 only"

----------------------------------------------------------------------------
(* Properties of the run of the checks *)

\* the names of the checks of runTests, in the order it makes them
RunOrder ==
    <<"DNS Resolution Check", "TCP Connectivity Check", "SSL/TLS Certificate Check",
      "Bucket Authentication Check">>

\* C28: a run whose configuration validated makes the DNS, TCP, TLS and
\* authentication checks once each, in this order, whatever the earlier ones
\* gave: the results are theirs, in this order, as many as the position of the
\* run says, four at the end. No run has CheckPolicy set, and none has a fifth
\* result. The summary counts every result once: Total is the number of results
\* and the sum of Passed, Failed, Warnings and Skipped.
C28_RunOrder ==
    /\ [i \in DOMAIN report.Results |-> report.Results[i].TestName]
          = SubSeq(RunOrder, 1, Len(report.Results))
    /\ pc \in {"parse", "validate"} => report = NoReport
    /\ pc \in {"dns", "tcp", "tls", "auth", "send", "respond", "summary"} =>
          /\ ~cfg.CheckPolicy
          /\ Len(report.Results) =
                (CASE pc = "dns" -> 0 [] pc = "tcp" -> 1 [] pc = "tls" -> 2
                   [] pc = "summary" -> 4 [] OTHER -> 3)
    /\ (pc = "exited" /\ report # NoReport) =>
          /\ Len(report.Results) = 4
          /\ report.Summary.Total = 4
          /\ report.Summary.Total = report.Summary.Passed + report.Summary.Failed
                                       + report.Summary.Warnings + report.Summary.Skipped
          /\ report.Summary.Failed =
                Cardinality({i \in 1..4 : report.Results[i].Status = "FAIL"})

\* a finished run whose DNS and TCP checks failed and whose authentication
\* check got an answer
C28_Witness ==
    /\ pc = "exited"
    /\ Len(report.Results) = 4
    /\ report.Results[1].Status = "FAIL"
    /\ report.Results[2].Status = "FAIL"
    /\ report.Results[4].Details # NoDetails
    /\ report.Summary.Total = 4
    /\ report.Summary.Failed >= 2

----------------------------------------------------------------------------
(* Properties of the registry *)

\* C29: what DetectProvider returns for an endpoint, in the case typed, in upper
\* case and in lower case, is a key of ProviderCapabilitiesMap; after a
\* Validate that succeeded DetectedProvider is the key detected for the
\* endpoint, and the profile the configuration points to is the entry of that
\* key as the registry was written, warnings made or not: nothing has been
\* written through the pointer.
C29_RegistryKeys ==
    pc = "detected" =>
        /\ {DetectProvider(cfg.Endpoint), DetectProvider(ToUpper(cfg.Endpoint)),
            DetectProvider(TypedEndpoint)} \subseteq DOMAIN ProviderCapabilitiesMap
        /\ err = "" =>
              /\ cfg.DetectedProvider = DetectProvider(TypedEndpoint)
              /\ cfg.DetectedProvider \in DOMAIN ProviderCapabilitiesMap
              /\ cfg.ProviderCapabilities # NilCaps
              /\ cfg.ProviderCapabilities = ProviderCapabilitiesMap[cfg.DetectedProvider]

\* a validated R2 endpoint with warnings, its profile the one of the registry
C29_Witness ==
    /\ pc = "detected" /\ err = ""
    /\ cfg.DetectedProvider = "cloudflare"
    /\ WarningCount(cfg.Warning) = 2
    /\ cfg.ProviderCapabilities.Notes = "No ACL/policy; path-style not supported"

----------------------------------------------------------------------------
(* Properties of the AuthResult *)

\* status codes a server can answer with
AnsweredCodes == {100, 199, 200, 201, 204, 206, 299, 300, 301, 302, 400, 401, 403, 404, 500}

\* the fields of the AuthResult d agree with the status code
AuthResultAgrees(code, d) ==
    /\ d.StatusCode = code
    /\ d.Success <=> (code >= 200 /\ code <= 299)
    /\ d.AccessGranted => code = 200
    /\ d.AccessGranted => (d.BucketExists /\ d.Success)
    /\ code = 200 => d.AccessGranted
    /\ code = 403 => (d.BucketExists /\ ~d.AccessGranted)
    /\ code = 404 => ~d.BucketExists

\* C30: in every AuthResult of Check, Success holds exactly for the status codes
\* 200 to 299, AccessGranted only for 200 and never without BucketExists and
\* Success, 403 gives BucketExists without AccessGranted, 404 gives no
\* BucketExists: of the result in the report, which is the one of the response
\* received, and of the result Check would build had the server answered with
\* any other code.
C30_AuthResult ==
    /\ \A i \in DOMAIN report.Results :
          report.Results[i].Details # NoDetails =>
             /\ i = 4
             /\ report.Results[i].Details.StatusCode = resp.StatusCode
             /\ AuthResultAgrees(resp.StatusCode, report.Results[i].Details)
    /\ pc = "respond" =>
          \A code \in AnsweredCodes :
             AuthResultAgrees(code,
                AuthOutcome(NewAuthChecker(report.Config),
                            [resp EXCEPT !.StatusCode = code]).Details)

\* the result of a 403 answer in the report: the bucket exists, access is denied
C30_Witness ==
    /\ pc = "exited"
    /\ Len(report.Results) = 4
    /\ report.Results[4].Details # NoDetails
    /\ report.Results[4].Details.StatusCode = 403
    /\ report.Results[4].Details.BucketExists
    /\ ~report.Results[4].Details.AccessGranted
    /\ ~report.Results[4].Details.Success

====
